---- MODULE Spec2Model ----
(***************************************************************************)
(* A model of raidvis.py: the RAIDArray engine (drives, placement map,     *)
(* writer, rebuild and rebalance workers, catalog) driven through its      *)
(* public methods by one foreground thread, with the background worker     *)
(* threads interleaving between logical blocks.                            *)
(*                                                                         *)
(* Strings are sequences of code points: "A" is <<65>>, "P065" is          *)
(* <<80,48,54,53>>.  A Python dict is an insertion-ordered sequence of     *)
(* [k, v] entries where the iteration order is read by the code            *)
(* (one LBA's drive map), and a function where it is not (sectors).        *)
(***************************************************************************)
EXTENDS Integers, Sequences, FiniteSets, TLC

VARIABLES raid_level, drives, current_logical_block_index,
          logical_to_physical_map, rebuild_active, rebalance_active,
          threads, config, fg, last, calls, committed,
          raid_signature, now

vars == <<raid_level, drives, current_logical_block_index,
          logical_to_physical_map, rebuild_active, rebalance_active,
          threads, config, fg, last, calls, committed,
          raid_signature, now>>

(* ------------------------------ bounds -------------------------------- *)
\* the largest number of logical blocks an array is filled with
MaxLba == 2
\* the longest string handed to one write_data call
MaxStr == 2
\* how many worker threads may be alive at once
MaxThreads == 2
\* how many drives add_drive may append beyond the initial set
MaxAdd == 1
\* how many drives may be inactive at once
MaxFailed == 2
\* how many calls the driver makes
MaxCalls == 4

\* the payload characters the driver writes: 'A' and U+00E9
Chars == {65, 233}

(* ----------------------- raid_configs (280-308) ----------------------- *)
min_drives(level) ==
    CASE level = 0 -> 2 [] level = 1 -> 2 [] level = 5 -> 3 [] level = 6 -> 4
      [] level = 10 -> 4 [] level = 50 -> 6 [] level = 60 -> 8

fault_tolerance(level) ==
    CASE level = 0 -> 0 [] level = 1 -> 1 [] level = 5 -> 1 [] level = 6 -> 2
      [] level = 10 -> 2 [] level = 50 -> 2 [] level = 60 -> 4

(* ----------------------------- helpers -------------------------------- *)
\* None, for an int-valued lookup that found nothing (dict.get)
None == -2

EmptyFn == [x \in {} |-> 0]

\* d[k] = v on a dict whose order is not read
Put(f, k, v) == [x \in (DOMAIN f) \cup {k} |-> IF x = k THEN v ELSE f[x]]

\* dict.get(k) on an insertion-ordered dict m (a sequence of [k, v])
DGet(m, k) ==
    IF \E i \in 1..Len(m) : m[i].k = k
    THEN m[CHOOSE i \in 1..Len(m) : m[i].k = k].v
    ELSE None

DHas(m, k) == \E i \in 1..Len(m) : m[i].k = k

\* m[k] = v on an insertion-ordered dict: in place when k is there, else appended
DSet(m, k, v) ==
    IF DHas(m, k)
    THEN [i \in 1..Len(m) |-> IF m[i].k = k THEN [k |-> k, v |-> v] ELSE m[i]]
    ELSE Append(m, [k |-> k, v |-> v])

DKeys(m) == {m[i].k : i \in 1..Len(m)}

\* the elements of a set of integers in ascending order
RECURSIVE SortedSeq(_)
SortedSeq(S) ==
    IF S = {} THEN <<>>
    ELSE LET lo == CHOOSE x \in S : \A y \in S : x <= y
         IN <<lo>> \o SortedSeq(S \ {lo})

\* Python's a ^ b on non-negative integers
RECURSIVE Xor(_, _)
Xor(a, b) ==
    IF a = 0 THEN b
    ELSE IF b = 0 THEN a
    ELSE 2 * Xor(a \div 2, b \div 2) + ((a + b) % 2)

\* str(n) for n >= 0, as code points
RECURSIVE Str(_)
Str(n) == IF n < 10 THEN <<48 + n>> ELSE Str(n \div 10) \o <<48 + (n % 10)>>

\* f"{n:03d}": str(n) zero-padded to at least three digits
Fmt03d(n) ==
    LET s == Str(n)
    IN IF Len(s) >= 3 THEN s
       ELSE IF Len(s) = 2 THEN <<48>> \o s ELSE <<48, 48>> \o s

\* int(s) for a string of decimal digits
RECURSIVE ParseInt(_)
ParseInt(s) ==
    IF Len(s) = 0 THEN 0
    ELSE 10 * ParseInt(SubSeq(s, 1, Len(s) - 1)) + (s[Len(s)] - 48)

\* s[:4]
First4(s) == SubSeq(s, 1, IF Len(s) < 4 THEN Len(s) ELSE 4)

\* s[1:]
From1(s) == SubSeq(s, 2, Len(s))

(* ------------------------------ codec --------------------------------- *)
RECURSIVE XorAll(_)
XorAll(s) == IF Len(s) = 0 THEN 0 ELSE Xor(XorAll(SubSeq(s, 1, Len(s) - 1)), s[Len(s)])

\* _calculate_parity: f"P{parity_val:03d}"[:4], "0000" for the empty string
calculate_parity(data) ==
    IF Len(data) = 0 THEN <<48, 48, 48, 48>>
    ELSE First4(<<80>> \o Fmt03d(XorAll(data)))

\* q_parity_val = ord(data) ^ (lba % 100); f"Q{q_parity_val % 1000:03d}"[:4]
q_parity(data, lba) ==
    First4(<<81>> \o Fmt03d(Xor(data[1], lba % 100) % 1000))

\* chr(int(block[1:]) % 128)
data_from_p(block) == <<ParseInt(From1(block)) % 128>>

\* chr((int(block[1:]) ^ (lba % 100)) % 128)
data_from_q(block, lba) == <<Xor(ParseInt(From1(block)), lba % 100) % 128>>

\* chr((parity_val ^ data_val) % 128)
data_from_p_and_data(block, data) ==
    <<Xor(ParseInt(From1(block)), data[1]) % 128>>

LOST == <<76, 79, 83, 84>>
UNKNOWN == <<63, 63, 63>>
ERROR == <<69, 82, 82, 79, 82>>

(* ------------------------------ Drive --------------------------------- *)
\* no signature given (the default None of Drive.__init__ and add_drive)
NoSignature == <<>>

\* a constructor that makes a signature of its own whatever it is given
NewDrive_own_signature(drive_id, signature, t) ==
    [is_active |-> TRUE, status |-> "active", sectors |-> EmptyFn,
     next_physical_sector |-> 0, used_sectors |-> 0,
     signature |-> <<"DRV", drive_id, t>>]

\* Drive.__init__ at time t: a new drive is active, empty, status "active";
\* it takes the signature given, or else a new one made of its id and the
\* time (the random part is left out: ids are not reused within a process)
NewDrive(drive_id, signature, t) ==
    [is_active |-> TRUE, status |-> "active", sectors |-> EmptyFn,
     next_physical_sector |-> 0, used_sectors |-> 0,
     signature |-> IF signature # NoSignature THEN signature
                   ELSE <<"DRV", drive_id, t>>]

\* Drive.write_sector on an active drive: the drive after the append
write_sector(d, data, type, lba) ==
    LET sec == Put(d.sectors, d.next_physical_sector,
                   [data |-> data, type |-> type, lba |-> lba])
    IN [d EXCEPT !.sectors = sec,
                 !.used_sectors = Cardinality(DOMAIN sec),
                 !.next_physical_sector = d.next_physical_sector + 1]

\* Drive.write_to_specific_sector on an active drive
write_to_specific_sector(d, sector_num, data, type, lba) ==
    LET sec == Put(d.sectors, sector_num,
                   [data |-> data, type |-> type, lba |-> lba])
    IN [d EXCEPT !.sectors = sec,
                 !.used_sectors = Cardinality(DOMAIN sec),
                 !.next_physical_sector =
                     IF sector_num >= d.next_physical_sector
                     THEN sector_num + 1 ELSE d.next_physical_sector]

\* Drive.read_sector: None (the empty string stands for it) when the drive
\* is inactive or the sector was never written
NoData == <<>>
read_sector(d, sector) ==
    IF ~d.is_active THEN NoData
    ELSE IF sector \in DOMAIN d.sectors THEN d.sectors[sector].data
    ELSE NoData

\* Drive.mark_failed
mark_failed(d) == [d EXCEPT !.is_active = FALSE, !.status = "failed"]

(* ----------------------------- RAIDArray ------------------------------ *)
\* The engine's state as one value, so that a method is an operator from
\* state to state and a method calling another composes them.
Self ==
    [raid_level |-> raid_level, drives |-> drives,
     current_logical_block_index |-> current_logical_block_index,
     logical_to_physical_map |-> logical_to_physical_map,
     rebuild_active |-> rebuild_active, rebalance_active |-> rebalance_active,
     threads |-> threads, config |-> config,
     raid_signature |-> raid_signature]

Ids(a) == DOMAIN a.drives
NumDrives(a) == Cardinality(DOMAIN a.drives)

\* [d for d in self.drives if d.is_active], as drive ids in list order
active_drives(a) == SortedSeq({i \in Ids(a) : a.drives[i].is_active})

\* [d for d in seq if position != i]
Without(seq, skip) ==
    LET keep == {i \in 1..Len(seq) : i \notin skip}
        pos == SortedSeq(keep)
    IN [j \in 1..Len(pos) |-> seq[pos[j]]]

\* {str(d_id): p_sec for d_id, p_sec in d_map.items()}
StrKeys(m) == [i \in 1..Len(m) |-> [k |-> Str(m[i].k), v |-> m[i].v]]

\* {int(d_id): p_sec for d_id, p_sec in d_map.items()}
IntKeys(m) == [i \in 1..Len(m) |-> [k |-> ParseInt(m[i].k), v |-> m[i].v]]

\* _save_config: the catalog file after the dump; the keys of the map are
\* written as strings, the drives as a list in the order of self.drives
save_config(a) ==
    LET order == SortedSeq(Ids(a))
    IN
    [a EXCEPT !.config =
        [raid_level |-> a.raid_level,
         raid_signature |-> a.raid_signature,
         current_logical_block_index |-> a.current_logical_block_index,
         logical_to_physical_map |->
             [s \in {Str(l) : l \in DOMAIN a.logical_to_physical_map} |->
                 StrKeys(a.logical_to_physical_map[ParseInt(s)])],
         drives |-> [j \in 1..Len(order) |->
                        LET i == order[j]
                        IN [id |-> i,
                            signature |-> a.drives[i].signature,
                            is_active |-> a.drives[i].is_active,
                            status |-> a.drives[i].status,
                            next_physical_sector |-> a.drives[i].next_physical_sector]]]]

\* drive.write_sector(data, type, lba) followed by
\* self.logical_to_physical_map[lba][drive_id] = physical_sector
WriteBlock(a, id, data, type, lba) ==
    [a EXCEPT !.drives[id] = write_sector(a.drives[id], data, type, lba),
              !.logical_to_physical_map[lba] =
                  DSet(a.logical_to_physical_map[lba], id,
                       a.drives[id].next_physical_sector)]

Raise(a) == [ok |-> FALSE, a |-> a]
Done(a) == [ok |-> TRUE, a |-> a]

\* _write_raid0
write_raid0(a, data, lba) ==
    LET act == active_drives(a)
    IN IF Len(act) = 0 THEN Raise(a)
       ELSE IF Len(act) < NumDrives(a) THEN Raise(a)
       ELSE Done(WriteBlock(a, act[(lba % Len(act)) + 1], data, "DATA", lba))

\* the loop of _write_raid1 and _write_raid10: one copy on every active
\* drive of ids, in list order
RECURSIVE WriteCopies(_, _, _, _)
WriteCopies(a, ids, data, lba) ==
    IF Len(ids) = 0 THEN a
    ELSE LET id == Head(ids)
             b == IF a.drives[id].is_active
                  THEN WriteBlock(a, id, data, "DATA", lba) ELSE a
         IN WriteCopies(b, Tail(ids), data, lba)

NumActiveIn(a, ids) ==
    Cardinality({i \in 1..Len(ids) : a.drives[ids[i]].is_active})

\* _write_raid1
write_raid1(a, data, lba) ==
    LET act == active_drives(a)
        all == SortedSeq(Ids(a))
    IN IF Len(act) = 0 THEN Raise(a)
       ELSE LET b == WriteCopies(a, all, data, lba)
            IN IF Len(act) < NumDrives(a) - fault_tolerance(a.raid_level)
               THEN Raise(b) ELSE Done(b)

\* the single-parity stripe of _write_raid5 and _write_raid50 over the
\* active drives act: DATA first, then PARITY
StripeP(a, act, data, lba) ==
    LET pidx == (lba % Len(act)) + 1
        dd == Without(act, {pidx})
        ddrive == dd[(lba % Len(dd)) + 1]
        b == WriteBlock(a, ddrive, data, "DATA", lba)
    IN WriteBlock(b, act[pidx], calculate_parity(data), "PARITY", lba)

\* a second parity index that falls on the first
ParityIdx2_on_first(lba, n) == (lba % n) + 1

\* the two parity positions of _write_raid6 and _write_raid60 (1-based)
ParityIdx1(lba, n) == (lba % n) + 1
ParityIdx2(lba, n) ==
    IF (lba + 1) % n = lba % n THEN ((((lba + 1) % n) + 1) % n) + 1
    ELSE ((lba + 1) % n) + 1

\* the dual-parity stripe of _write_raid6 and _write_raid60: DATA, P, Q
StripePQ(a, act, data, lba) ==
    LET p1 == ParityIdx1(lba, Len(act))
        p2 == ParityIdx2(lba, Len(act))
        dd == Without(act, {p1, p2})
        ddrive == dd[(lba % Len(dd)) + 1]
        b == WriteBlock(a, ddrive, data, "DATA", lba)
        c == WriteBlock(b, act[p1], calculate_parity(data), "PARITY-P", lba)
    IN WriteBlock(c, act[p2], q_parity(data, lba), "PARITY-Q", lba)

\* _write_raid5
write_raid5(a, data, lba) ==
    LET act == active_drives(a)
    IN IF Len(act) < min_drives(a.raid_level) THEN Raise(a)
       ELSE IF Len(act) < 2 THEN Raise(a)
       ELSE Done(StripeP(a, act, data, lba))

\* _write_raid6
write_raid6(a, data, lba) ==
    LET act == active_drives(a)
    IN IF Len(act) < min_drives(a.raid_level) THEN Raise(a)
       ELSE IF Len(Without(act, {ParityIdx1(lba, Len(act)),
                                 ParityIdx2(lba, Len(act))})) = 0 THEN Raise(a)
       ELSE Done(StripePQ(a, act, data, lba))

\* self.drives[i : i + size] of the group holding this LBA, as ids
Subarray(a, size, lba) ==
    LET num == NumDrives(a) \div size
        g == lba % num
    IN [j \in 1..size |-> g * size + j - 1]

\* _write_raid10
write_raid10(a, data, lba) ==
    LET n == NumDrives(a)
        pairs == {p \in 0..((n \div 2) - 1) : TRUE}
    IN IF n < min_drives(a.raid_level) \/ n % 2 # 0 THEN Raise(a)
       ELSE IF \E p \in pairs : ~a.drives[2 * p].is_active
                                /\ ~a.drives[2 * p + 1].is_active
       THEN Raise(a)
       ELSE LET target == Subarray(a, 2, lba)
            IN IF NumActiveIn(a, target) = 0 THEN Raise(a)
               ELSE Done(WriteCopies(a, target, data, lba))

\* [d for d in target_subarray if d.is_active]
ActiveOf(a, ids) ==
    Without(ids, {i \in 1..Len(ids) : ~a.drives[ids[i]].is_active})

\* _write_raid50
write_raid50(a, data, lba) ==
    LET n == NumDrives(a)
        size == min_drives(5)
    IN IF n < min_drives(50) \/ n % size # 0 THEN Raise(a)
       ELSE LET act == ActiveOf(a, Subarray(a, size, lba))
            IN IF Len(act) < size - fault_tolerance(5) THEN Raise(a)
               ELSE Done(StripeP(a, act, data, lba))

\* _write_raid60
write_raid60(a, data, lba) ==
    LET n == NumDrives(a)
        size == min_drives(6)
    IN IF n < min_drives(60) \/ n % size # 0 THEN Raise(a)
       ELSE LET act == ActiveOf(a, Subarray(a, size, lba))
            IN IF Len(act) < size - fault_tolerance(6) THEN Raise(a)
               ELSE IF Len(Without(act, {ParityIdx1(lba, Len(act)),
                                         ParityIdx2(lba, Len(act))})) = 0
               THEN Raise(a)
               ELSE Done(StripePQ(a, act, data, lba))

\* the dispatch of write_data on self.raid_level
write_raidX(a, data, lba) ==
    CASE a.raid_level = 0 -> write_raid0(a, data, lba)
      [] a.raid_level = 1 -> write_raid1(a, data, lba)
      [] a.raid_level = 5 -> write_raid5(a, data, lba)
      [] a.raid_level = 6 -> write_raid6(a, data, lba)
      [] a.raid_level = 10 -> write_raid10(a, data, lba)
      [] a.raid_level = 50 -> write_raid50(a, data, lba)
      [] a.raid_level = 60 -> write_raid60(a, data, lba)

\* a quorum test that knows RAID-0 only
write_refused_raid0_only(a) ==
    a.raid_level = 0 /\ Len(active_drives(a)) < NumDrives(a)

\* the quorum test that opens write_data: TRUE when the call returns early
write_refused(a) ==
    LET n == Len(active_drives(a))
    IN \/ a.raid_level = 0 /\ n < NumDrives(a)
       \/ a.raid_level \in {1, 5, 6, 10, 50, 60}
          /\ n < NumDrives(a) - fault_tolerance(a.raid_level)

\* f[k] removed from a dict whose order is not read
Del(f, k) == [x \in (DOMAIN f) \ {k} |-> f[x]]

\* a turn of the loop that commits the block in memory and leaves the
\* catalog file as it was
write_block_unsaved(a, data) ==
    LET lba == a.current_logical_block_index
        b == [a EXCEPT !.logical_to_physical_map =
                          Put(a.logical_to_physical_map, lba, <<>>)]
        r == write_raidX(b, data, lba)
    IN IF r.ok
       THEN Done([r.a EXCEPT !.current_logical_block_index = lba + 1])
       ELSE Raise([r.a EXCEPT !.logical_to_physical_map =
                                 Del(r.a.logical_to_physical_map, lba)])

\* one turn of write_data's loop, for the character data: ok is FALSE when
\* the loop breaks
write_block(a, data) ==
    LET lba == a.current_logical_block_index
        b == [a EXCEPT !.logical_to_physical_map =
                          Put(a.logical_to_physical_map, lba, <<>>)]
        r == write_raidX(b, data, lba)
    IN IF r.ok
       THEN Done(save_config(
                [r.a EXCEPT !.current_logical_block_index = lba + 1]))
       ELSE Raise([r.a EXCEPT !.logical_to_physical_map =
                                 Del(r.a.logical_to_physical_map, lba)])

(* ------------------- start_rebuild / start_rebalance ------------------- *)
\* threading.Thread(target=self._rebuild_worker, args=...).start()
RebuildThread(failed, repl, isnew) ==
    [kind |-> "rebuild", failed |-> failed, repl |-> repl, isnew |-> isnew,
     new_drive_id |-> None, pc |-> "start", lba |-> 0, total |-> 0,
     old_map |-> EmptyFn, old_sectors |-> EmptyFn, act |-> <<>>]

\* threading.Thread(target=self._rebalance_worker, args=(new_drive_id,)).start()
RebalanceThread(new_drive_id) ==
    [kind |-> "rebalance", failed |-> None, repl |-> None, isnew |-> FALSE,
     new_drive_id |-> new_drive_id, pc |-> "start", lba |-> 0, total |-> 0,
     old_map |-> EmptyFn, old_sectors |-> EmptyFn, act |-> <<>>]

\* a gate of start_rebuild that tests its own flag only
rebuild_gate_own_flag(a) == a.rebuild_active

\* the gate that opens start_rebuild (1175-1182)
rebuild_gate_closed(a) == a.rebuild_active \/ a.rebalance_active

\* a gate of start_rebalance that tests its own flag only
rebalance_gate_own_flag(a) == a.rebalance_active

\* the gate that opens start_rebalance (1650-1657)
rebalance_gate_closed(a) == a.rebalance_active \/ a.rebuild_active

\* start_rebuild
start_rebuild(a, failed, repl, isnew) ==
    IF rebuild_gate_closed(a) THEN a
    ELSE IF ~(0 <= repl /\ repl < NumDrives(a)) THEN a
    ELSE IF ~isnew
    THEN IF ~(0 <= failed /\ failed < NumDrives(a)) THEN a
         ELSE IF failed = repl /\ a.drives[failed].is_active THEN a
         ELSE IF failed # repl /\ a.drives[repl].is_active THEN a
         ELSE LET d == a.drives[repl]
                  cleared == IF failed # repl
                             THEN [d EXCEPT !.sectors = EmptyFn,
                                            !.next_physical_sector = 0]
                             ELSE d
              IN [a EXCEPT !.drives[repl] =
                               [cleared EXCEPT !.is_active = TRUE,
                                               !.status = "rebuilding"],
                           !.rebuild_active = TRUE,
                           !.threads = Append(a.threads,
                                           RebuildThread(failed, repl, isnew))]
    ELSE IF a.drives[repl].is_active /\ a.drives[repl].used_sectors > 0
    THEN save_config([a EXCEPT !.drives[repl].status = "active"])
    ELSE [a EXCEPT !.drives[repl] =
                       [a.drives[repl] EXCEPT !.sectors = EmptyFn,
                                              !.next_physical_sector = 0,
                                              !.is_active = TRUE,
                                              !.status = "syncing"],
                   !.rebuild_active = TRUE,
                   !.threads = Append(a.threads,
                                      RebuildThread(failed, repl, isnew))]

\* start_rebalance
start_rebalance(a, new_drive_id) ==
    IF rebalance_gate_closed(a) THEN a
    ELSE [a EXCEPT !.rebalance_active = TRUE,
                   !.threads = Append(a.threads, RebalanceThread(new_drive_id))]

(* ----------------------- add_drive / remove_drive ---------------------- *)
\* an id one past the drive count
next_drive_id_past_count(a) == NumDrives(a) + 1

\* the first id not taken: ids are contiguous from 0, so the drive count
next_drive_id(a) ==
    CHOOSE i \in 0..NumDrives(a) : i \notin Ids(a) /\ \A j \in 0..(i - 1) : j \in Ids(a)

\* add_drive(initial_setup=False): the state after, and the id returned
add_drive(a) ==
    IF a.raid_level \in {10, 50, 60} THEN [a |-> a, id |-> None]
    ELSE LET new_drive_id == next_drive_id(a)
             b == save_config([a EXCEPT !.drives =
                                  Put(a.drives, new_drive_id,
                                      NewDrive(new_drive_id, NoSignature, now))])
             c == IF a.raid_level \in {0, 5, 6}
                  THEN start_rebalance(b, new_drive_id)
                  ELSE IF a.raid_level = 1
                  THEN start_rebuild(b, -1, new_drive_id, TRUE)
                  ELSE b
         IN [a |-> c, id |-> new_drive_id]

\* the survivability test of remove_drive (556-560)
beyond_tolerance(a) ==
    Len(active_drives(a)) < NumDrives(a) - fault_tolerance(a.raid_level)

\* lba_map[drive_id] = -1 for every LBA mapped to the drive (569-574)
mark_lost(a, id) ==
    [a EXCEPT !.logical_to_physical_map =
        [l \in DOMAIN a.logical_to_physical_map |->
            IF DHas(a.logical_to_physical_map[l], id)
            THEN DSet(a.logical_to_physical_map[l], id, -1)
            ELSE a.logical_to_physical_map[l]]]

\* remove_drive from the statement after mark_failed (553) to its end, with
\* the choice typed at its prompt ("1", "2" or "3")
remove_drive_marked(a, id, choice) ==
    LET b == save_config(a)
    IN IF beyond_tolerance(b)
       THEN IF b.raid_level = 0 THEN mark_lost(b, id) ELSE b
       ELSE IF choice = 1
       THEN IF b.drives[id].status = "failed"
            THEN IF b.raid_level = 0
                 THEN [b EXCEPT !.drives[id].status = "permanently_failed"]
                 ELSE start_rebuild(
                         save_config([b EXCEPT !.drives[id].is_active = TRUE,
                                               !.drives[id].status = "re_adding"]),
                         id, id, FALSE)
            ELSE b
       ELSE IF choice = 2
       THEN LET r == add_drive(b)
            IN IF r.id # None THEN start_rebuild(r.a, id, r.id, FALSE)
               ELSE r.a
       ELSE b

\* remove_drive, with the choice typed at its prompt ("1", "2" or "3")
remove_drive(a, id, choice) ==
    IF ~(0 <= id /\ id < NumDrives(a)) THEN a
    ELSE IF ~a.drives[id].is_active THEN a
    ELSE remove_drive_marked([a EXCEPT !.drives[id] = mark_failed(a.drives[id])],
                             id, choice)

\* whether remove_drive reaches its prompt (582-587): the drive was active
\* and its failure leaves the array within tolerance
prompted(a, id) ==
    /\ id \in Ids(a)
    /\ a.drives[id].is_active
    /\ ~beyond_tolerance([a EXCEPT !.drives[id] = mark_failed(a.drives[id])])

\* the first lines of cleanup: both flags cleared; the joins follow
cleanup_flags(a) == [a EXCEPT !.rebuild_active = FALSE, !.rebalance_active = FALSE]

(* --------------------------- _rebuild_worker --------------------------- *)
\* self.logical_to_physical_map.get(lba, {})
MapGet(m, lba) == IF lba \in DOMAIN m THEN m[lba] ELSE <<>>

\* the test the worker makes of a source drive d for one LBA:
\* d.is_active and p_sector is not None and p_sector != -1 and p_sector in d.sectors
Readable(a, id, pmap) ==
    LET p_sector == DGet(pmap, id)
    IN a.drives[id].is_active /\ p_sector # None /\ p_sector # -1
       /\ p_sector \in DOMAIN a.drives[id].sectors

\* the collection loop of the RAID-5/6/50/60 branches over the drives ids:
\* the data blocks and parity blocks read from the drives other than the
\* replacement (and the failed position), classified by the conceptual
\* parity drives pid and qid (qid = None where there is one parity)
RECURSIVE Collect(_, _, _, _, _, _, _)
Collect(a, w, ids, pmap, pid, qid, acc) ==
    IF Len(ids) = 0 THEN acc
    ELSE LET id == Head(ids)
             skip == id = w.repl \/ (~w.isnew /\ id = w.failed)
             info == a.drives[id].sectors[DGet(pmap, id)]
             ptype == IF qid = None THEN "PARITY" ELSE "PARITY-P"
             nxt == IF skip \/ ~Readable(a, id, pmap) THEN acc
                    ELSE IF id = pid
                    THEN IF info.type = ptype THEN [acc EXCEPT !.p = info.data]
                         ELSE acc
                    ELSE IF id = qid
                    THEN IF info.type = "PARITY-Q" THEN [acc EXCEPT !.q = info.data]
                         ELSE acc
                    ELSE IF info.type = "DATA"
                    THEN [acc EXCEPT !.data = Append(acc.data, info.data)]
                    ELSE acc
         IN Collect(a, w, Tail(ids), pmap, pid, qid, nxt)

NoBlocks == [data |-> <<>>, p |-> NoData, q |-> NoData]

Truthy(s) == Len(s) > 0

\* the copy loop of the RAID-1 and RAID-10 branches over the drives ids
RECURSIVE CopyFromMirror(_, _, _, _)
CopyFromMirror(a, w, ids, pmap) ==
    IF Len(ids) = 0 THEN NoData
    ELSE LET id == Head(ids)
             s == DGet(pmap, id)
             data == IF a.drives[id].is_active /\ id # w.repl
                        /\ s # None /\ s # -1
                     THEN read_sector(a.drives[id], s) ELSE NoData
         IN IF Truthy(data) THEN data
            ELSE CopyFromMirror(a, w, Tail(ids), pmap)

\* rebuilt_data of the single-parity branches (RAID-5, and RAID-50 in a group)
RebuiltP(w, c, pid) ==
    IF w.repl = pid
    THEN IF Len(c.data) > 0 THEN calculate_parity(c.data[1]) ELSE UNKNOWN
    ELSE IF Truthy(c.p) /\ Len(c.data) > 0
         THEN data_from_p_and_data(c.p, c.data[1])
         ELSE IF Truthy(c.p) /\ Len(c.data) = 0 THEN data_from_p(c.p)
         ELSE UNKNOWN

\* rebuilt_data where the target held P or Q (RAID-6 and RAID-60)
RebuiltParityPQ(w, c, pid, lba) ==
    IF Len(c.data) = 0 THEN UNKNOWN
    ELSE IF w.repl = pid THEN calculate_parity(c.data[1])
    ELSE q_parity(c.data[1], lba)

\* the RAID-5 branch (1355-1397)
rebuilt_raid5(a, w, lba, pmap) ==
    LET pid == lba % NumDrives(a)
        c == Collect(a, w, SortedSeq(Ids(a)), pmap, pid, None, NoBlocks)
    IN RebuiltP(w, c, pid)

\* the conceptual Q drive: the position after P, one further when they meet
QPos(lba, n) ==
    IF (lba + 1) % n = lba % n THEN (lba + 2) % n ELSE (lba + 1) % n

\* the RAID-6 branch (1400-1459)
rebuilt_raid6(a, w, lba, pmap) ==
    LET n == NumDrives(a)
        pid == lba % n
        qid == QPos(lba, n)
        c == Collect(a, w, SortedSeq(Ids(a)), pmap, pid, qid, NoBlocks)
    IN IF w.repl # pid /\ w.repl # qid
       THEN IF Truthy(c.p) /\ Len(c.data) > 0
            THEN data_from_p_and_data(c.p, c.data[1])
            ELSE IF Truthy(c.q) /\ Len(c.data) > 0 THEN data_from_q(c.q, lba)
            ELSE IF Truthy(c.p) /\ Truthy(c.q) THEN data_from_p(c.p)
            ELSE UNKNOWN
       ELSE RebuiltParityPQ(w, c, pid, lba)

\* the role under which the RAID-5 and RAID-6 branches rebuild the target:
\* target_is_parity_drive (1374), target_is_p_drive, target_is_q_drive and
\* target_is_data_drive (1425-1427) compare the replacement's id with the
\* conceptual parity drives
target_role(a, w, lba) ==
    LET n == NumDrives(a)
    IN IF a.raid_level = 5
       THEN IF w.repl = lba % n THEN "PARITY" ELSE "DATA"
       ELSE IF w.repl = lba % n THEN "PARITY-P"
       ELSE IF w.repl = QPos(lba, n) THEN "PARITY-Q"
       ELSE "DATA"

\* a RAID-1 branch that finds no mirror to copy from
rebuilt_raid1_no_source(a, w, lba, pmap) == UNKNOWN

\* the RAID-1 branch (1330-1352)
rebuilt_raid1(a, w, lba, pmap) ==
    LET data == CopyFromMirror(a, w, SortedSeq(Ids(a)), pmap)
    IN IF Truthy(data) THEN data ELSE UNKNOWN

\* the RAID-10 branch (1461-1494): the first pair holding the failed
\* position (or the replacement of a new-drive add)
rebuilt_raid10(a, w, lba, pmap) ==
    LET pairs == {p \in 0..((NumDrives(a) \div 2) - 1) :
                     \/ w.failed \in {2 * p, 2 * p + 1}
                     \/ w.isnew /\ w.repl \in {2 * p, 2 * p + 1}}
    IN IF pairs = {} THEN UNKNOWN
       ELSE LET p == CHOOSE x \in pairs : \A y \in pairs : x <= y
                data == CopyFromMirror(a, w, <<2 * p, 2 * p + 1>>, pmap)
            IN IF Truthy(data) THEN data ELSE UNKNOWN

\* the ids range(subarray_start_id, subarray_start_id + size) that exist
SubarrayOf(a, w, size) ==
    LET target == IF ~w.isnew THEN w.failed ELSE w.repl
        start == (target \div size) * size
    IN [start |-> start,
        ids |-> SortedSeq({i \in start..(start + size - 1) : i \in Ids(a)})]

\* the RAID-50 branch (1496-1539)
rebuilt_raid50(a, w, lba, pmap) ==
    LET size == min_drives(5)
        sub == SubarrayOf(a, w, size)
        pid == sub.start + (lba % size)
        c == Collect(a, w, sub.ids, pmap, pid, None, NoBlocks)
    IN RebuiltP(w, c, pid)

\* the RAID-60 branch (1541-1601)
rebuilt_raid60(a, w, lba, pmap) ==
    LET size == min_drives(6)
        sub == SubarrayOf(a, w, size)
        pid == sub.start + (lba % size)
        qid == sub.start + QPos(lba, size)
        c == Collect(a, w, sub.ids, pmap, pid, qid, NoBlocks)
    IN IF w.repl # pid /\ w.repl # qid
       THEN IF Truthy(c.p) /\ Truthy(c.q) /\ Len(c.data) > 0
            THEN data_from_p_and_data(c.p, c.data[1])
            ELSE IF Truthy(c.p) /\ ~Truthy(c.q) /\ Len(c.data) = 0
            THEN data_from_p(c.p)
            ELSE IF Truthy(c.q) /\ ~Truthy(c.p) /\ Len(c.data) = 0
            THEN data_from_q(c.q, lba)
            ELSE UNKNOWN
       ELSE RebuiltParityPQ(w, c, pid, lba)

\* rebuilt_data for one LBA on a redundant level
rebuilt_data(a, w, lba, pmap) ==
    CASE a.raid_level = 1 -> rebuilt_raid1(a, w, lba, pmap)
      [] a.raid_level = 5 -> rebuilt_raid5(a, w, lba, pmap)
      [] a.raid_level = 6 -> rebuilt_raid6(a, w, lba, pmap)
      [] a.raid_level = 10 -> rebuilt_raid10(a, w, lba, pmap)
      [] a.raid_level = 50 -> rebuilt_raid50(a, w, lba, pmap)
      [] a.raid_level = 60 -> rebuilt_raid60(a, w, lba, pmap)

\* one turn of the worker's loop for the block w.lba (1293-1628), the flag
\* found set: ok is FALSE when the turn raises (a KeyError on a missing map
\* entry, or the write on an inactive replacement)
rebuild_lba(a, w) ==
    LET lba == w.lba
        pmap == MapGet(a.logical_to_physical_map, lba)
        target == IF ~w.isnew THEN DGet(pmap, w.failed) ELSE None
        sector == IF w.isnew THEN a.drives[w.repl].next_physical_sector
                  ELSE target
        lost == a.raid_level = 0
        data == IF lost THEN LOST ELSE rebuilt_data(a, w, lba, pmap)
    IN IF ~w.isnew /\ (target = None \/ target = -1) THEN Done(a)
       ELSE IF lba \notin DOMAIN a.logical_to_physical_map THEN Raise(a)
       ELSE LET b == [a EXCEPT !.logical_to_physical_map[lba] =
                         DSet(pmap, w.repl, IF lost THEN -1 ELSE sector)]
            IN IF ~a.drives[w.repl].is_active THEN Raise(b)
               ELSE Done([b EXCEPT !.drives[w.repl] =
                            write_to_specific_sector(
                                a.drives[w.repl], sector, data,
                                IF lost THEN "PERM_LOST"
                                ELSE IF w.isnew THEN "SYNCED" ELSE "REBUILT",
                                lba)])

\* what follows the loop (1630-1632), and the early return on an empty
\* array (1283-1285): the replacement becomes "active", the catalog is saved
rebuild_complete(a, w) ==
    save_config([a EXCEPT !.drives[w.repl].status = "active"])

\* a finally clause that leaves the flag up
rebuild_finally_keeps_flag(a) == a

\* the finally clause (1640-1641)
rebuild_finally(a) == [a EXCEPT !.rebuild_active = FALSE]

(* -------------------------- _rebalance_worker -------------------------- *)
\* the opening after the statement that makes the new drive active
\* (1678-1701)
rebalance_opened(a, w) ==
    LET b == [a EXCEPT !.drives[w.new_drive_id] =
                 [a.drives[w.new_drive_id] EXCEPT !.status = "rebalancing",
                                                  !.sectors = EmptyFn,
                                                  !.next_physical_sector = 0]]
        act == {i \in Ids(b) : b.drives[i].is_active}
    IN [a |-> [b EXCEPT !.drives =
                   [i \in Ids(b) |->
                       IF i \in act
                       THEN [b.drives[i] EXCEPT !.sectors = EmptyFn,
                                                !.next_physical_sector = 0]
                       ELSE b.drives[i]]],
        old_map |-> b.logical_to_physical_map,
        old_sectors |-> [i \in act |-> b.drives[i].sectors]]

\* the opening of the worker (1676-1701): the new drive is made active,
\* "rebalancing" and empty; the map and every active drive's sectors are
\* snapshotted; every active drive is cleared.  The array after, and the
\* snapshots the thread keeps.
rebalance_open(a, w) ==
    rebalance_opened([a EXCEPT !.drives[w.new_drive_id].is_active = TRUE], w)

\* the test of one entry of the old map (1736-1738, 1753-1755, 1771-1773)
OldReadable(a, w, id, sec) ==
    /\ id < NumDrives(a)
    /\ a.drives[id].is_active
    /\ sec # -1
    /\ id \in DOMAIN w.old_sectors
    /\ sec \in DOMAIN w.old_sectors[id]

\* the RAID-0 recovery loop (1734-1740): the first readable entry
RECURSIVE original_raid0(_, _, _)
original_raid0(a, w, m) ==
    IF Len(m) = 0 THEN NoData
    ELSE IF OldReadable(a, w, m[1].k, m[1].v)
         THEN w.old_sectors[m[1].k][m[1].v].data
         ELSE original_raid0(a, w, Tail(m))

\* the RAID-5 recovery loop (1752-1762): a DATA block ends the loop, a
\* PARITY block met before any data is decoded
RECURSIVE original_raid5(_, _, _, _)
original_raid5(a, w, m, original) ==
    IF Len(m) = 0 THEN original
    ELSE IF ~OldReadable(a, w, m[1].k, m[1].v)
         THEN original_raid5(a, w, Tail(m), original)
         ELSE LET info == w.old_sectors[m[1].k][m[1].v]
              IN IF info.type = "DATA" THEN info.data
                 ELSE IF info.type = "PARITY" /\ ~Truthy(original)
                 THEN original_raid5(a, w, Tail(m), data_from_p(info.data))
                 ELSE original_raid5(a, w, Tail(m), original)

\* the RAID-6 recovery loop (1770-1781): acc holds the data found and the
\* P and Q blocks collected
RECURSIVE collect_raid6(_, _, _, _)
collect_raid6(a, w, m, acc) ==
    IF Len(m) = 0 THEN acc
    ELSE IF ~OldReadable(a, w, m[1].k, m[1].v)
         THEN collect_raid6(a, w, Tail(m), acc)
         ELSE LET info == w.old_sectors[m[1].k][m[1].v]
              IN IF info.type = "DATA" THEN [acc EXCEPT !.data = <<info.data>>]
                 ELSE IF info.type = "PARITY-P"
                 THEN collect_raid6(a, w, Tail(m), [acc EXCEPT !.p = info.data])
                 ELSE IF info.type = "PARITY-Q"
                 THEN collect_raid6(a, w, Tail(m), [acc EXCEPT !.q = info.data])
                 ELSE collect_raid6(a, w, Tail(m), acc)

\* the RAID-6 recovery (1764-1789)
original_raid6(a, w, m, lba) ==
    LET c == collect_raid6(a, w, m, NoBlocks)
    IN IF Len(c.data) > 0 THEN c.data[1]
       ELSE IF Truthy(c.p) THEN data_from_p(c.p)
       ELSE IF Truthy(c.q) THEN data_from_q(c.q, lba)
       ELSE NoData

\* original_data_for_lba: None (NoData) on the levels that have no branch
original_data_for_lba(a, w, lba) ==
    LET m == MapGet(w.old_map, lba)
    IN CASE a.raid_level = 0 -> original_raid0(a, w, m)
         [] a.raid_level = 5 -> original_raid5(a, w, m, NoData)
         [] a.raid_level = 6 -> original_raid6(a, w, m, lba)
         [] OTHER -> NoData

\* drive.write_sector on the thread's own list of drives, recorded in the
\* map being built: r is [ok, a, m]; the write raises on an inactive drive
RebWrite(r, id, data, type, lba) ==
    IF ~r.ok THEN r
    ELSE IF ~r.a.drives[id].is_active THEN [r EXCEPT !.ok = FALSE]
    ELSE [ok |-> TRUE,
          a |-> [r.a EXCEPT !.drives[id] =
                    write_sector(r.a.drives[id], data, type, lba)],
          m |-> DSet(r.m, id, r.a.drives[id].next_physical_sector)]

\* a rewrite that keeps the drives each block was on before the rebalance
rewrite_lba_old_stripe(a, w, data, lba) ==
    LET old == MapGet(w.old_map, lba)
        r0 == [ok |-> TRUE, a |-> a, m |-> <<>>]
    IN IF a.raid_level = 0
       THEN RebWrite(r0, old[1].k, data, "DATA", lba)
       ELSE RebWrite(RebWrite(r0, old[1].k, data, "DATA", lba),
                     old[2].k, calculate_parity(data), "PARITY", lba)

\* the rewrite of one LBA under the new stripe pattern (1811-1857)
rewrite_lba(a, w, data, lba) ==
    LET act == w.act
        n == Len(act)
        r0 == [ok |-> TRUE, a |-> a, m |-> <<>>]
    IN CASE a.raid_level = 0 ->
              RebWrite(r0, act[(lba % n) + 1], data, "DATA", lba)
         [] a.raid_level = 5 ->
              LET pidx == (lba % n) + 1
                  dd == Without(act, {pidx})
              IN IF Len(dd) = 0 THEN [r0 EXCEPT !.ok = FALSE]
                 ELSE RebWrite(
                        RebWrite(r0, dd[(lba % Len(dd)) + 1], data, "DATA", lba),
                        act[pidx], calculate_parity(data), "PARITY", lba)
         [] a.raid_level = 6 ->
              LET p1 == ParityIdx1(lba, n)
                  p2 == ParityIdx2(lba, n)
                  dd == Without(act, {p1, p2})
              IN IF Len(dd) = 0 THEN [r0 EXCEPT !.ok = FALSE]
                 ELSE RebWrite(
                        RebWrite(
                          RebWrite(r0, dd[(lba % Len(dd)) + 1], data, "DATA", lba),
                          act[p1], calculate_parity(data), "PARITY-P", lba),
                        act[p2], q_parity(data, lba), "PARITY-Q", lba)
         [] OTHER -> r0

\* one turn of the worker's loop for the block w.lba (1721-1867), the flag
\* found set
rebalance_lba(a, w) ==
    LET lba == w.lba
        data == original_data_for_lba(a, w, lba)
    IN IF ~Truthy(data) THEN a
       ELSE LET r == rewrite_lba(a, w, data, lba)
            IN [r.a EXCEPT !.logical_to_physical_map =
                   Put(r.a.logical_to_physical_map, lba,
                       IF r.ok THEN r.m ELSE <<>>)]

\* what follows the loop (1873-1875), and the early return on an empty
\* array (1707-1709): the new drive becomes "active", the catalog is saved
rebalance_complete(a, w) ==
    save_config([a EXCEPT !.drives[w.new_drive_id].status = "active"])

\* the finally clause (1883-1884)
rebalance_finally(a) == [a EXCEPT !.rebalance_active = FALSE]

(* ----------------------------- health_check --------------------------- *)
\* "failed" in status
HasFailed(status) ==
    status \in {"failed", "permanently_failed", "failed_file_missing",
                "failed_signature_mismatch"}

\* the drive loop of health_check (1921-1931) over the drives ids, from the
\* status so far; the drive files exist, so no drive is marked failed here
RECURSIVE DriveChecks(_, _, _)
DriveChecks(a, ids, health_status) ==
    IF Len(ids) = 0 THEN health_status
    ELSE LET d == a.drives[Head(ids)]
         IN DriveChecks(a, Tail(ids),
                IF d.status = "failed_signature_mismatch"
                THEN "DEGRADED (Signature Mismatch)"
                ELSE IF ~d.is_active /\ ~HasFailed(d.status)
                THEN "DEGRADED (Inactive Drive)"
                ELSE health_status)

\* len(available_sources) for one LBA (1938-1947)
num_available_sources(a, lba) ==
    Cardinality({id \in Ids(a) :
                    Readable(a, id, MapGet(a.logical_to_physical_map, lba))})

\* an LBA the consistency check reports as degraded but rebuildable
SourcesMissing(a, lba) ==
    LET n == num_available_sources(a, lba)
    IN CASE a.raid_level = 0 -> FALSE
         [] a.raid_level = 1 -> 0 < n /\ n < NumDrives(a)
         [] a.raid_level \in {5, 10, 50} -> n = 1
         [] a.raid_level \in {6, 60} -> n \in {1, 2}

\* health_check: the status string returned
health_check(a) ==
    LET n == Len(active_drives(a))
        lbas == 0..(a.current_logical_block_index - 1)
        counted == IF n < NumDrives(a) - fault_tolerance(a.raid_level)
                   THEN "CRITICAL"
                   ELSE IF n < NumDrives(a)
                   THEN "DEGRADED (Rebuild Recommended)"
                   ELSE "OK"
        flagged == IF a.rebuild_active THEN "DEGRADED (Rebuild In Progress)"
                   ELSE IF a.rebalance_active
                   THEN "DEGRADED (Rebalance In Progress)"
                   ELSE counted
        checked == DriveChecks(a, SortedSeq(Ids(a)), flagged)
    IN IF \E lba \in lbas : num_available_sources(a, lba) = 0
       THEN "CRITICAL"
       ELSE IF checked = "OK" /\ \E lba \in lbas : SourcesMissing(a, lba)
       THEN "INCONSISTENT"
       ELSE checked

(* ------------------------------ actions -------------------------------- *)
\* the engine's variables take the values of the state a
Becomes(a) ==
    /\ drives' = a.drives
    /\ current_logical_block_index' = a.current_logical_block_index
    /\ logical_to_physical_map' = a.logical_to_physical_map
    /\ rebuild_active' = a.rebuild_active
    /\ rebalance_active' = a.rebalance_active
    /\ threads' = a.threads
    /\ config' = a.config
    /\ raid_signature' = a.raid_signature
    /\ raid_level' = raid_level
    /\ now' = now

Idle == [pc |-> "idle", rest |-> <<>>]

\* the record of a foreground call: its name and arguments
Called(op, id, choice) == [op |-> op, id |-> id, choice |-> choice]

\* a foreground call returns having made the state a: a call that changed
\* nothing leaves no trace, any other is counted and recorded in last (the
\* last call made)
Returns(a, call) ==
    IF a = Self THEN UNCHANGED vars
    ELSE /\ Becomes(a)
         /\ last' = call
         /\ calls' = calls + 1
         /\ fg' = fg
         /\ committed' = committed

\* initialize_raid_structure(clear_existing=True): min_drives new drives,
\* an empty map, the catalog saved
InitialArray(level) ==
    save_config(
        [raid_level |-> level,
         drives |-> [i \in 0..(min_drives(level) - 1) |->
                        NewDrive(i, NoSignature, now)],
         current_logical_block_index |-> 0,
         logical_to_physical_map |-> EmptyFn,
         rebuild_active |-> FALSE, rebalance_active |-> FALSE,
         threads |-> <<>>, config |-> EmptyFn,
         raid_signature |-> <<"RAID", level, now>>])

InitLevels(levels) ==
    \E level \in levels :
        /\ now = 0
        /\ raid_level = level
        /\ drives = InitialArray(level).drives
        /\ current_logical_block_index = 0
        /\ logical_to_physical_map = EmptyFn
        /\ rebuild_active = FALSE
        /\ rebalance_active = FALSE
        /\ threads = <<>>
        /\ config = InitialArray(level).config
        /\ fg = Idle
        /\ last = Called("init", None, None)
        /\ calls = 0
        /\ committed = <<>>
        /\ raid_signature = InitialArray(level).raid_signature

\* the strings of 1..MaxStr characters of Chars
Strings == UNION {[1..n -> Chars] : n \in 1..MaxStr}

\* write_data(data) is called: the quorum test, which returns early (the
\* refusal is recorded in last), then the loop is entered
WriteData ==
    /\ fg.pc = "idle"
    /\ calls < MaxCalls
    /\ \E data \in Strings :
        /\ current_logical_block_index + Len(data) <= MaxLba
        /\ IF write_refused(Self)
           THEN /\ fg' = fg
                /\ calls' = calls + 1
                /\ last' = Called("write_refused", None, None)
                /\ committed' = committed
                /\ Becomes(Self)
           ELSE /\ fg' = [pc |-> "write", rest |-> data]
                /\ calls' = calls + 1
                /\ last' = Called("write_data", None, None)
                /\ committed' = committed
                /\ Becomes(Self)

\* one turn of write_data's loop; the call returns after the last
\* character, or when a block's write raises.  committed remembers, for
\* each LBA the loop committed, the character written and whether every
\* drive was active then
WriteBlockStep ==
    /\ fg.pc = "write"
    /\ LET r == write_block(Self, <<Head(fg.rest)>>)
       IN /\ Becomes(r.a)
          /\ calls' = calls
          /\ last' = last
          /\ committed' =
                IF r.ok
                THEN Append(committed,
                            [data |-> <<Head(fg.rest)>>,
                             intact |-> Len(active_drives(Self)) = NumDrives(Self)])
                ELSE committed
          /\ IF r.ok /\ Len(fg.rest) > 1
             THEN fg' = [fg EXCEPT !.rest = Tail(fg.rest)]
             ELSE fg' = Idle

\* add_drive() is called
AddDrive ==
    /\ fg.pc = "idle"
    /\ calls < MaxCalls
    /\ NumDrives(Self) < min_drives(raid_level) + MaxAdd
    /\ Len(threads) < MaxThreads
    /\ Returns(add_drive(Self).a, Called("add_drive", add_drive(Self).id, None))

\* remove_drive(id) is called and the prompt, where the call reaches it,
\* answered with choice
RemoveDrive ==
    /\ fg.pc = "idle"
    /\ calls < MaxCalls
    /\ Len(threads) < MaxThreads
    /\ \E id \in Ids(Self), choice \in {1, 2, 3} :
        /\ Cardinality({i \in Ids(Self) : ~drives[i].is_active}) < MaxFailed
        /\ choice = 2 => NumDrives(Self) < min_drives(raid_level) + MaxAdd
        /\ Returns(remove_drive(Self, id, choice),
                   Called("remove_drive", id,
                          IF prompted(Self, id) THEN choice ELSE None))

\* start_rebuild(failed, replacement) is called for a failed position, or
\* start_rebuild(-1, replacement, is_new_drive_add=True) for a new drive
StartRebuild ==
    /\ fg.pc = "idle"
    /\ calls < MaxCalls
    /\ Len(threads) < MaxThreads
    /\ \E repl \in Ids(Self), failed \in Ids(Self) \cup {-1} :
        Returns(start_rebuild(Self, failed, repl, failed = -1),
                Called("start_rebuild", repl, failed))

\* start_rebalance(new_drive_id) is called
StartRebalance ==
    /\ fg.pc = "idle"
    /\ calls < MaxCalls
    /\ Len(threads) < MaxThreads
    /\ \E id \in Ids(Self) :
        Returns(start_rebalance(Self, id), Called("start_rebalance", id, None))

\* cleanup() is called: the flags are cleared and the joins begin
Cleanup ==
    /\ fg.pc = "idle"
    /\ calls < MaxCalls
    /\ Becomes(cleanup_flags(Self))
    /\ fg' = [pc |-> "join", rest |-> <<>>]
    /\ calls' = calls + 1
    /\ last' = Called("cleanup", None, None)
    /\ committed' = committed

\* cleanup() returns: the joined threads have ended, or join(timeout=2.0)
\* has timed out ("did not terminate gracefully")
CleanupReturn ==
    /\ fg.pc = "join"
    /\ fg' = Idle
    /\ last' = last
    /\ calls' = calls
    /\ committed' = committed
    /\ Becomes(Self)

\* the threads without the i-th
Ended(i) == [j \in 1..(Len(threads) - 1) |-> IF j < i THEN threads[j] ELSE threads[j + 1]]

\* the rebuild thread i runs up to its loop: an empty array ends it
RebuildStart(i) ==
    /\ threads[i].kind = "rebuild" /\ threads[i].pc = "start"
    /\ IF current_logical_block_index = 0
       THEN Becomes([rebuild_finally(rebuild_complete(Self, threads[i]))
                        EXCEPT !.threads = Ended(i)])
       ELSE Becomes([Self EXCEPT !.threads[i].pc = "loop",
                                 !.threads[i].total = current_logical_block_index])

\* the rebuild thread i takes one turn of its loop, or leaves the loop
\* (at its end, or on finding rebuild_active cleared) and ends
RebuildLoop(i) ==
    /\ threads[i].kind = "rebuild" /\ threads[i].pc = "loop"
    /\ LET w == threads[i]
       IN IF w.lba >= w.total \/ ~rebuild_active
          THEN Becomes([rebuild_finally(rebuild_complete(Self, w))
                           EXCEPT !.threads = Ended(i)])
          ELSE LET r == rebuild_lba(Self, w)
               IN IF r.ok
                  THEN Becomes([r.a EXCEPT !.threads[i].lba = w.lba + 1])
                  ELSE Becomes([rebuild_finally(r.a) EXCEPT !.threads = Ended(i)])

\* the rebalance thread i runs up to its loop: a drive id out of range
\* raises, an empty array ends it
RebalanceStart(i) ==
    /\ threads[i].kind = "rebalance" /\ threads[i].pc = "start"
    /\ LET w == threads[i]
       IN IF w.new_drive_id \notin Ids(Self)
          THEN Becomes([rebalance_finally(Self) EXCEPT !.threads = Ended(i)])
          ELSE LET o == rebalance_open(Self, w)
               IN IF current_logical_block_index = 0
                  THEN Becomes([rebalance_finally(rebalance_complete(o.a, w))
                                   EXCEPT !.threads = Ended(i)])
                  ELSE Becomes([o.a EXCEPT
                          !.threads[i] =
                              [w EXCEPT !.pc = "loop",
                                        !.total = current_logical_block_index,
                                        !.old_map = o.old_map,
                                        !.old_sectors = o.old_sectors,
                                        !.act = active_drives(o.a)]])

\* the rebalance thread i takes one turn of its loop, or leaves the loop
\* (at its end, or on finding rebalance_active cleared) and ends
RebalanceLoop(i) ==
    /\ threads[i].kind = "rebalance" /\ threads[i].pc = "loop"
    /\ LET w == threads[i]
       IN IF w.lba >= w.total \/ ~rebalance_active
          THEN Becomes([rebalance_finally(rebalance_complete(Self, w))
                           EXCEPT !.threads = Ended(i)])
          ELSE Becomes([rebalance_lba(Self, w) EXCEPT !.threads[i].lba = w.lba + 1])

\* a worker thread runs; the foreground thread is where it was
ThreadStep ==
    /\ \E i \in 1..Len(threads) :
          \/ RebuildStart(i)
          \/ RebuildLoop(i)
          \/ RebalanceStart(i)
          \/ RebalanceLoop(i)
    /\ fg' = fg
    /\ last' = last
    /\ calls' = calls
    /\ committed' = committed

Next ==
    \/ WriteData
    \/ WriteBlockStep
    \/ AddDrive
    \/ RemoveDrive
    \/ StartRebuild
    \/ StartRebalance
    \/ Cleanup
    \/ CleanupReturn
    \/ ThreadStep

\* the single-level arrays: striping, mirroring, single and double parity
Init == InitLevels({0, 1, 5, 6})

Spec == Init /\ [][Next]_vars

\* the nested arrays: mirrored pairs and RAID-5 sub-groups
InitNested == InitLevels({10, 50})

SpecNested == InitNested /\ [][Next]_vars

(* ------------------- writes and workers under faults ------------------- *)
\* The writers sleep between their sector writes (740, 807, 821), and a
\* worker's finally clause runs health_check, which marks failed an active
\* drive whose file is gone (1928-1931).  Here one turn of write_data's loop
\* is taken in parts, on RAID-0 and RAID-5, so that a drive can be found
\* inactive by the write_sector that follows its selection.

\* a file is lost only while no more than this many drives are inactive
MaxLost == 1

\* the turn begins: the LBA's entry is made empty and the writer picks its
\* drives from the active ones (716-728, 774-797); a failed test raises
WriteSelect ==
    /\ fg.pc = "write"
    /\ raid_level \in {0, 5}
    /\ LET lba == current_logical_block_index
           b == [Self EXCEPT !.logical_to_physical_map =
                                Put(logical_to_physical_map, lba, <<>>)]
           act == active_drives(Self)
           refused == IF raid_level = 0
                      THEN Len(act) = 0 \/ Len(act) < NumDrives(Self)
                      ELSE Len(act) < min_drives(raid_level) \/ Len(act) < 2
           pidx == (lba % Len(act)) + 1
           dd == Without(act, {pidx})
       IN IF refused
          THEN /\ Becomes([b EXCEPT !.logical_to_physical_map =
                                       Del(b.logical_to_physical_map, lba)])
               /\ fg' = Idle
          ELSE /\ Becomes(b)
               /\ fg' = [pc |-> "data", rest |-> fg.rest,
                         drive |-> IF raid_level = 0 THEN act[(lba % Len(act)) + 1]
                                   ELSE dd[(lba % Len(dd)) + 1],
                         parity |-> IF raid_level = 0 THEN None ELSE act[pidx]]
    /\ UNCHANGED <<last, calls, committed>>

\* the except clause of a writer followed by that of write_data (698-704):
\* the drive is marked failed, RAID-0 marks the block -1 (733-738), the
\* LBA's entry is deleted and the loop left
write_failed(a, id, lba) ==
    LET b == [a EXCEPT !.drives[id] = mark_failed(a.drives[id])]
        c == IF a.raid_level = 0
             THEN [b EXCEPT !.logical_to_physical_map[lba] =
                               DSet(b.logical_to_physical_map[lba], id, -1)]
             ELSE b
    IN [c EXCEPT !.logical_to_physical_map = Del(c.logical_to_physical_map, lba)]

\* what follows the writer in the loop (694-697): the counter moves and the
\* catalog is saved
write_committed(a) ==
    save_config([a EXCEPT !.current_logical_block_index =
                             a.current_logical_block_index + 1])

\* the fg position after a committed turn
AfterTurn ==
    IF Len(fg.rest) > 1 THEN [pc |-> "write", rest |-> Tail(fg.rest)] ELSE Idle

\* the entry of committed for the turn that commits now
Commits ==
    Append(committed,
           [data |-> <<Head(fg.rest)>>,
            intact |-> Len(active_drives(Self)) = NumDrives(Self)])

\* the DATA write (729-732, 799-803): write_sector raises on a drive that
\* is no longer active
WriteDataSector ==
    /\ fg.pc = "data"
    /\ LET lba == current_logical_block_index
       IN IF ~drives[fg.drive].is_active
          THEN /\ Becomes(write_failed(Self, fg.drive, lba))
               /\ fg' = Idle
               /\ committed' = committed
          ELSE LET b == WriteBlock(Self, fg.drive, <<Head(fg.rest)>>, "DATA", lba)
               IN IF raid_level = 0
                  THEN /\ Becomes(write_committed(b))
                       /\ fg' = AfterTurn
                       /\ committed' = Commits
                  ELSE /\ Becomes(b)
                       /\ fg' = [fg EXCEPT !.pc = "parity"]
                       /\ committed' = committed
    /\ UNCHANGED <<last, calls>>

\* the PARITY write of _write_raid5 (809-820)
WriteParitySector ==
    /\ fg.pc = "parity"
    /\ LET lba == current_logical_block_index
       IN IF ~drives[fg.parity].is_active
          THEN /\ Becomes(write_failed(Self, fg.parity, lba))
               /\ fg' = Idle
               /\ committed' = committed
          ELSE /\ Becomes(write_committed(
                      WriteBlock(Self, fg.parity,
                                 calculate_parity(<<Head(fg.rest)>>),
                                 "PARITY", lba)))
               /\ fg' = AfterTurn
               /\ committed' = Commits
    /\ UNCHANGED <<last, calls>>

\* the worker thread i is at a step that ends it without an exception
AtEnd(i) ==
    LET w == threads[i]
    IN \/ w.pc = "start" /\ current_logical_block_index = 0
          /\ (w.kind = "rebalance" => w.new_drive_id \in Ids(Self))
       \/ w.pc = "loop"
          /\ (w.lba >= w.total
              \/ (IF w.kind = "rebuild" THEN ~rebuild_active ELSE ~rebalance_active))

\* the array when the thread i has ended, up to the health_check of its
\* finally clause
Ending(i) ==
    LET w == threads[i]
        a == IF w.kind = "rebuild"
             THEN rebuild_finally(rebuild_complete(Self, w))
             ELSE IF w.pc = "start"
             THEN rebalance_finally(rebalance_complete(rebalance_open(Self, w).a, w))
             ELSE rebalance_finally(rebalance_complete(Self, w))
    IN [a EXCEPT !.threads = Ended(i)]

\* a worker ends and the health_check of its finally clause (1642, 1885)
\* finds the file of the active drive f missing: the drive is marked failed
\* (1928-1931); the catalog is not saved
WorkerEndFault ==
    /\ \E i \in 1..Len(threads), f \in Ids(Self) :
          /\ AtEnd(i)
          /\ Ending(i).drives[f].is_active
          /\ Cardinality({d \in Ids(Self) : ~drives[d].is_active}) < MaxLost
          /\ Becomes([Ending(i) EXCEPT !.drives[f] = mark_failed(Ending(i).drives[f])])
    /\ UNCHANGED <<fg, last, calls, committed>>

\* WriteBlockStep is the three parts of a turn taken at once
NextFaults ==
    \/ WriteData
    \/ WriteSelect
    \/ WriteDataSector
    \/ WriteParitySector
    \/ AddDrive
    \/ RemoveDrive
    \/ StartRebuild
    \/ StartRebalance
    \/ Cleanup
    \/ CleanupReturn
    \/ ThreadStep
    \/ WorkerEndFault

InitFaults == InitLevels({0, 5})

SpecFaults == InitFaults /\ [][NextFaults]_vars

(* ------------------------------ restart -------------------------------- *)
\* RAIDArray.__init__ in a process started at time t, in the folder whose
\* catalog file is cfg
RAIDArray(level, t, cfg) ==
    [raid_level |-> level, drives |-> EmptyFn,
     current_logical_block_index |-> 0,
     logical_to_physical_map |-> EmptyFn,
     rebuild_active |-> FALSE, rebalance_active |-> FALSE,
     threads |-> <<>>, config |-> cfg,
     raid_signature |-> <<"RAID", level, t>>]

\* a drive's file as the starting process finds it: there or not, and
\* recording the signature of the catalog or another one
Artifacts == [exists : BOOLEAN, own : BOOLEAN]

\* create_drive_file: open(file_path, "w") creates the file or truncates it
\* and the header with the drive's signature is written
create_drive_file(file) == [exists |-> TRUE, own |-> TRUE]

\* the body of _load_config's loop for one entry of the catalog's drive list
\* (425-466): the Drive is constructed with the recorded signature, which
\* creates its file, and then the file and the signature are tested
attach(drive_info, file, t) ==
    LET drive_signature == drive_info.signature
        drive_status == drive_info.status
        new_drive == NewDrive(drive_info.id, drive_signature, t)
        found == create_drive_file(file)
    IN IF ~found.exists
       THEN [new_drive EXCEPT !.is_active = FALSE,
                              !.status = "failed_file_missing",
                              !.sectors = EmptyFn]
       ELSE IF new_drive.signature # drive_signature /\ drive_status # "failed"
       THEN [new_drive EXCEPT !.is_active = FALSE,
                              !.status = "failed_signature_mismatch"]
       ELSE [new_drive EXCEPT !.is_active = drive_info.is_active,
                              !.status = drive_status,
                              !.next_physical_sector =
                                  drive_info.next_physical_sector]

\* _load_config on a new array a at time t: the result and the array after
load_config(a, files, t) ==
    LET config_data == a.config
        loaded_map == config_data.logical_to_physical_map
        ids == {config_data.drives[j].id : j \in DOMAIN config_data.drives}
        entry(i) == CHOOSE j \in DOMAIN config_data.drives :
                       config_data.drives[j].id = i
    IN IF config_data.raid_level # a.raid_level THEN Raise(a)
       ELSE Done([a EXCEPT
               !.raid_signature = config_data.raid_signature,
               !.current_logical_block_index =
                   config_data.current_logical_block_index,
               !.logical_to_physical_map =
                   [l \in {ParseInt(s) : s \in DOMAIN loaded_map} |->
                       IntKeys(loaded_map[Str(l)])],
               !.drives = [i \in ids |->
                              attach(config_data.drives[entry(i)], files[i], t)]])

\* whether the catalog file is what a save of the array as it is would write
CatalogCurrent == config = save_config(Self).config

\* the process is started again on the folder of the array:
\* RAIDArray(level) and initialize_raid_structure(clear_existing=False),
\* which falls back on a new array when the load fails (351-357); the
\* threads of the process before are gone; the file of the drive f is found
\* in the condition found, the others as they were left.  The restart is
\* recorded as "restart" when the catalog was current, else "restart_stale".
RestartWith(f, found) ==
    /\ fg.pc = "idle"
    /\ calls < MaxCalls
    /\ now' = now + 1
    /\ raid_level' = raid_level
    /\ LET files == [i \in Ids(Self) |->
                       IF i = f THEN found
                       ELSE [exists |-> TRUE, own |-> TRUE]]
           r == load_config(RAIDArray(raid_level, now + 1, config), files, now + 1)
           a == IF r.ok THEN r.a ELSE InitialArray(raid_level)'
       IN /\ drives' = a.drives
          /\ current_logical_block_index' = a.current_logical_block_index
          /\ logical_to_physical_map' = a.logical_to_physical_map
          /\ rebuild_active' = a.rebuild_active
          /\ rebalance_active' = a.rebalance_active
          /\ threads' = a.threads
          /\ config' = a.config
          /\ raid_signature' = a.raid_signature
    /\ fg' = Idle
    /\ calls' = calls + 1
    /\ last' = Called(IF CatalogCurrent THEN "restart" ELSE "restart_stale",
                      None, None)
    /\ committed' = committed

Restart == \E f \in Ids(Self), found \in Artifacts : RestartWith(f, found)

NextRestart ==
    \/ Next
    \/ Restart

InitRestart == InitLevels({0, 1, 5})

SpecRestart == InitRestart /\ [][NextRestart]_vars

(* ------------------------- arrays that are grown ----------------------- *)
\* the number of blocks of the arrays that are grown: the stripe of a block
\* on four drives differs from its stripe on three from the third block on
GrowLen == 4

\* write_data(data) run to its end on the array a with no other thread
\* running: the loop of 673-709
RECURSIVE write_data(_, _)
write_data(a, data) ==
    IF write_refused(a) \/ Len(data) = 0 THEN a
    ELSE LET r == write_block(a, <<Head(data)>>)
         IN IF r.ok /\ Len(data) > 1 THEN write_data(r.a, Tail(data)) ELSE r.a

\* an array initialized and then filled by one write_data of GrowLen
\* characters
InitGrow ==
    \E level \in {0, 5}, data \in [1..GrowLen -> Chars] :
        /\ now = 0
        /\ raid_level = level
        /\ LET a == write_data(InitialArray(level), data)
           IN /\ drives = a.drives
              /\ current_logical_block_index = a.current_logical_block_index
              /\ logical_to_physical_map = a.logical_to_physical_map
              /\ rebuild_active = a.rebuild_active
              /\ rebalance_active = a.rebalance_active
              /\ threads = a.threads
              /\ config = a.config
              /\ raid_signature = a.raid_signature
        /\ fg = Idle
        /\ last = Called("write_data", None, None)
        /\ calls = 1
        /\ committed = [k \in 1..GrowLen |-> [data |-> <<data[k]>>, intact |-> TRUE]]

\* the calls made on the filled array: every call but write_data
NextGrow ==
    \/ AddDrive
    \/ RemoveDrive
    \/ StartRebuild
    \/ StartRebalance
    \/ Cleanup
    \/ CleanupReturn
    \/ ThreadStep

SpecGrow == InitGrow /\ [][NextGrow]_vars

(* ------------- a write_sector that interleaves with a worker ---------- *)
\* write_sector reads next_physical_sector (133), stores the block at the
\* sector read (134-138) and moves the counter (140); a worker thread can
\* run between the read and the store.  Here the two parts are two steps.

\* the statements of write_sector after the read (134-140): the block goes
\* to the sector that was read, and the counter, as it is by now, moves by one
write_sector_at(d, sector, data, type, lba) ==
    LET sec == Put(d.sectors, sector, [data |-> data, type |-> type, lba |-> lba])
    IN [d EXCEPT !.sectors = sec,
                 !.used_sectors = Cardinality(DOMAIN sec),
                 !.next_physical_sector = d.next_physical_sector + 1]

\* the writer enters write_sector on the drive it selected: an inactive
\* drive raises (130-131), else next_physical_sector is read (133)
WriteSectorRead ==
    /\ fg.pc \in {"data", "parity"}
    /\ LET id == IF fg.pc = "data" THEN fg.drive ELSE fg.parity
           lba == current_logical_block_index
       IN IF ~drives[id].is_active
          THEN /\ Becomes(write_failed(Self, id, lba))
               /\ fg' = Idle
          ELSE /\ Becomes(Self)
               /\ fg' = [pc |-> "store", rest |-> fg.rest, drive |-> fg.drive,
                         parity |-> fg.parity, role |-> fg.pc,
                         sector |-> drives[id].next_physical_sector]
    /\ UNCHANGED <<last, calls, committed>>

\* write_sector stores and returns, and the writer records the sector in
\* the map (800-801, 810-811, 729-730); after the DATA block of RAID-5 the
\* PARITY block follows, else the turn commits
WriteSectorStore ==
    /\ fg.pc = "store"
    /\ LET id == IF fg.role = "data" THEN fg.drive ELSE fg.parity
           lba == current_logical_block_index
           data == <<Head(fg.rest)>>
           b == [Self EXCEPT
                   !.drives[id] =
                       write_sector_at(drives[id], fg.sector,
                                       IF fg.role = "data" THEN data
                                       ELSE calculate_parity(data),
                                       IF fg.role = "data" THEN "DATA" ELSE "PARITY",
                                       lba),
                   !.logical_to_physical_map[lba] =
                       DSet(logical_to_physical_map[lba], id, fg.sector)]
       IN IF fg.role = "data" /\ raid_level # 0
          THEN /\ Becomes(b)
               /\ fg' = [pc |-> "parity", rest |-> fg.rest, drive |-> fg.drive,
                         parity |-> fg.parity]
               /\ committed' = committed
          ELSE /\ Becomes(write_committed(b))
               /\ fg' = AfterTurn
               /\ committed' = Commits
    /\ UNCHANGED <<last, calls>>

NextRace ==
    \/ WriteData
    \/ WriteSelect
    \/ WriteSectorRead
    \/ WriteSectorStore
    \/ AddDrive
    \/ RemoveDrive
    \/ StartRebuild
    \/ StartRebalance
    \/ Cleanup
    \/ CleanupReturn
    \/ ThreadStep

InitRace == InitLevels({0, 5})

SpecRace == InitRace /\ [][NextRace]_vars

(* ---------- a mark_failed that interleaves with a worker's opening ------ *)
\* mark_failed is two assignments, is_active (194) and status (195); the
\* opening of the rebalance worker is two as well, is_active (1677) and
\* status (1678).  No lock is held by either: here each assignment is a
\* step of its thread.

\* remove_drive(id) is called on an active drive and runs up to the first
\* assignment of mark_failed (194)
RemoveDriveEnter ==
    /\ fg.pc = "idle"
    /\ calls < MaxCalls
    /\ Len(threads) < MaxThreads
    /\ \E id \in Ids(Self), choice \in {1, 2, 3} :
        /\ Cardinality({i \in Ids(Self) : ~drives[i].is_active}) < MaxFailed
        /\ choice = 2 => NumDrives(Self) < min_drives(raid_level) + MaxAdd
        /\ drives[id].is_active
        /\ Becomes([Self EXCEPT !.drives[id].is_active = FALSE])
        /\ fg' = [pc |-> "mark", rest |-> <<>>, id |-> id, choice |-> choice]
    /\ UNCHANGED <<last, calls, committed>>

\* the second assignment of mark_failed (195) and remove_drive to its end
RemoveDriveMarked ==
    /\ fg.pc = "mark"
    /\ LET a == [Self EXCEPT !.drives[fg.id].status = "failed"]
       IN /\ Becomes(remove_drive_marked(a, fg.id, fg.choice))
          /\ last' = Called("remove_drive", fg.id,
                            IF beyond_tolerance(a) THEN None ELSE fg.choice)
    /\ calls' = calls + 1
    /\ fg' = Idle
    /\ committed' = committed

\* the rebalance thread i runs up to the assignment that makes the new
\* drive active (1677): a drive id out of range raises
RebalanceActivate(i) ==
    /\ threads[i].kind = "rebalance" /\ threads[i].pc = "start"
    /\ LET w == threads[i]
       IN IF w.new_drive_id \notin Ids(Self)
          THEN Becomes([rebalance_finally(Self) EXCEPT !.threads = Ended(i)])
          ELSE Becomes([Self EXCEPT !.drives[w.new_drive_id].is_active = TRUE,
                                    !.threads[i].pc = "opening"])

\* the rebalance thread i runs from the status assignment (1678) up to its
\* loop: an empty array ends it
RebalanceOpening(i) ==
    /\ threads[i].kind = "rebalance" /\ threads[i].pc = "opening"
    /\ LET w == threads[i]
           o == rebalance_opened(Self, w)
       IN IF current_logical_block_index = 0
          THEN Becomes([rebalance_finally(rebalance_complete(o.a, w))
                           EXCEPT !.threads = Ended(i)])
          ELSE Becomes([o.a EXCEPT
                  !.threads[i] =
                      [w EXCEPT !.pc = "loop",
                                !.total = current_logical_block_index,
                                !.old_map = o.old_map,
                                !.old_sectors = o.old_sectors,
                                !.act = active_drives(o.a)]])

\* a worker thread runs one of its steps; the foreground thread is where
\* it was
ThreadStepFine ==
    /\ \E i \in 1..Len(threads) :
          \/ RebuildStart(i)
          \/ RebuildLoop(i)
          \/ RebalanceActivate(i)
          \/ RebalanceOpening(i)
          \/ RebalanceLoop(i)
    /\ fg' = fg
    /\ last' = last
    /\ calls' = calls
    /\ committed' = committed

NextMark ==
    \/ WriteData
    \/ WriteBlockStep
    \/ AddDrive
    \/ RemoveDriveEnter
    \/ RemoveDriveMarked
    \/ StartRebuild
    \/ StartRebalance
    \/ Cleanup
    \/ CleanupReturn
    \/ ThreadStepFine

\* striping and single parity, the levels add_drive rebalances
InitMark == InitLevels({0, 5})

SpecMark == InitMark /\ [][NextMark]_vars

(* ------------------------- workers under fairness --------------------- *)
\* a started thread is scheduled: start() at 1253-1261 and 1661-1665 hands
\* the worker to the interpreter, which runs every live thread again and
\* again; the calls of the foreground are not forced
InitLive == InitLevels({1, 5})

\* a step of a worker thread: the threads change, the foreground does not
IsThreadStep == threads' # threads /\ fg' = fg /\ calls' = calls

\* weak fairness of the worker steps, which are enabled exactly when a
\* thread is alive: WF_vars(ThreadStep) written out
FairThreads == []<>(threads = <<>>) \/ []<><<IsThreadStep>>_vars

SpecLive == InitLive /\ [][Next]_vars /\ FairThreads

(* ----------------------------- properties ----------------------------- *)
\* the engine's state after the step
SelfNext ==
    [raid_level |-> raid_level', drives |-> drives',
     current_logical_block_index |-> current_logical_block_index',
     logical_to_physical_map |-> logical_to_physical_map',
     rebuild_active |-> rebuild_active', rebalance_active |-> rebalance_active',
     threads |-> threads', config |-> config',
     raid_signature |-> raid_signature']

\* the step is one turn of write_data's loop
IsWriteBlockStep == fg.pc = "write" /\ fg' # fg

\* the step is a call of one of ops that returned having changed the array
IsCallOf(ops) == fg.pc = "idle" /\ calls' = calls + 1 /\ last'.op \in ops

WorkerActive == rebuild_active \/ rebalance_active

\* the worker threads in their per-LBA loop
InLoop == {i \in 1..Len(threads) : threads[i].pc = "loop"}

\* C1: a write_data call running while rebuild_active or rebalance_active
\* is true is rejected: no turn of its loop writes a sector on any drive,
\* moves the LBA counter or changes the placement map.
C1_WriteRejectedWhileWorker ==
    [][(IsWriteBlockStep /\ WorkerActive)
        => UNCHANGED <<drives, current_logical_block_index,
                       logical_to_physical_map>>]_vars

\* C2: in every reachable state, under any interleaving of start_rebuild,
\* start_rebalance, add_drive, remove_drive, cleanup and worker completion,
\* rebuild_active and rebalance_active are not both true.
C2_FlagsExclusive == ~(rebuild_active /\ rebalance_active)

\* C2's case: a rebalance was started while the worker of a cancelled
\* rebuild is still alive, and only the rebalance flag is up
C2_Witness ==
    /\ rebalance_active /\ ~rebuild_active
    /\ \E i \in 1..Len(threads) : threads[i].kind = "rebuild"
    /\ \E i \in 1..Len(threads) : threads[i].kind = "rebalance"

\* C3: at any time at most one background worker (rebuild or rebalance) is
\* executing its per-LBA loop, also when cleanup() is followed by a new
\* start before the old worker has observed the cleared flag.
C3_OneWorkerInLoop == Cardinality(InLoop) <= 1

\* C4: while a rebuild or rebalance worker is active, add_drive and
\* remove_drive are rejected: no drive is added, no drive's active flag or
\* status changes, no placement entry changes, the catalog is not rewritten.
C4_AddRemoveRejectedWhileWorker ==
    [][(WorkerActive /\ IsCallOf({"add_drive", "remove_drive"}))
        => /\ DOMAIN drives' = DOMAIN drives
           /\ \A i \in DOMAIN drives :
                 /\ drives'[i].is_active = drives[i].is_active
                 /\ drives'[i].status = drives[i].status
           /\ logical_to_physical_map' = logical_to_physical_map
           /\ config' = config]_vars

\* C5: a drive failure that leaves the number of failed drives within the
\* level's fault_tolerance loses no committed data: every LBA committed
\* while all drives were active that had an available source on an active
\* drive before the failure still has one after it.
C5_NoLossWithinTolerance ==
    [][(/\ IsCallOf({"remove_drive"})
        /\ NumDrives(SelfNext) - Len(active_drives(SelfNext))
              <= fault_tolerance(raid_level))
        => \A l \in 1..Len(committed) :
              (committed[l].intact /\ num_available_sources(Self, l - 1) >= 1)
                 => num_available_sources(SelfNext, l - 1) >= 1]_vars

\* the LBA's DATA component is readable on an active drive and holds data
Decodes(a, lba, data) ==
    \E id \in Ids(a) :
        LET pmap == MapGet(a.logical_to_physical_map, lba)
        IN /\ Readable(a, id, pmap)
           /\ a.drives[id].sectors[DGet(pmap, id)].type = "DATA"
           /\ a.drives[id].sectors[DGet(pmap, id)].data = data

\* no call is running and no worker thread is alive
Quiescent ==
    fg.pc = "idle" /\ threads = <<>> /\ ~rebuild_active /\ ~rebalance_active

\* C6: on a RAID-5 array with committed LBAs, once a drive was failed with
\* remove_drive, the option "add new replacement drive and start rebuild"
\* taken, and background work has finished, health_check returns OK and
\* every LBA decodes to the character originally written.
C6_ReplacementRestoresHealth ==
    (/\ raid_level = 5
     /\ last.op = "remove_drive" /\ last.choice = 2
     /\ Len(committed) > 0
     /\ Quiescent)
        => /\ health_check(Self) = "OK"
           /\ \A l \in 1..Len(committed) :
                 Decodes(Self, l - 1, committed[l].data)

\* C7: once a failed drive of a redundant array (failure within tolerance)
\* was re-added under its own id through remove_drive's re-add option and
\* the operation and its worker have finished, the drive is not left in
\* status re_adding.
C7_ReAddLeavesNoReAdding ==
    (/\ raid_level # 0
     /\ last.op = "remove_drive" /\ last.choice = 1
     /\ Quiescent)
        => drives[last.id].status # "re_adding"

\* an LBA with a DATA or parity sector in the snapshot a rebalance took
Recoverable(w, lba) ==
    LET m == MapGet(w.old_map, lba)
    IN \E j \in 1..Len(m) :
          /\ m[j].k \in DOMAIN w.old_sectors
          /\ m[j].v \in DOMAIN w.old_sectors[m[j].k]

\* the payload of an LBA before the rebalance: its DATA sector in the
\* snapshot, else (parity alone is left) the character originally written
PayloadBefore(w, lba) ==
    LET m == MapGet(w.old_map, lba)
        held == {j \in 1..Len(m) :
                    /\ m[j].k \in DOMAIN w.old_sectors
                    /\ m[j].v \in DOMAIN w.old_sectors[m[j].k]
                    /\ w.old_sectors[m[j].k][m[j].v].type = "DATA"}
    IN IF held # {}
       THEN w.old_sectors[m[CHOOSE j \in held : TRUE].k]
                         [m[CHOOSE j \in held : TRUE].v].data
       ELSE committed[lba + 1].data

\* C8: for RAID-0/5/6, when the rebalance triggered by adding a drive runs
\* to completion (alone, with no call made in between), every LBA that had
\* a DATA or parity sector in the pre-rebalance snapshot decodes to the
\* same payload as before the rebalance.
C8_RebalancePreservesPayload ==
    [][\A i \in 1..Len(threads) :
        (/\ raid_level \in {0, 5, 6}
         /\ Len(threads) = 1
         /\ threads[i].kind = "rebalance" /\ threads[i].pc = "loop"
         /\ threads[i].lba >= threads[i].total /\ rebalance_active
         /\ last = Called("add_drive", threads[i].new_drive_id, None)
         /\ threads' = Ended(i))
        => \A lba \in 0..(threads[i].total - 1) :
              Recoverable(threads[i], lba)
                 => Decodes(SelfNext, lba, PayloadBefore(threads[i], lba))]_vars

\* the placement map reflects what is on the drives: an entry of an active
\* drive that is not -1 names a sector the drive holds, written for that LBA
PlacementConsistent(a) ==
    \A lba \in DOMAIN a.logical_to_physical_map :
        LET m == a.logical_to_physical_map[lba]
        IN \A j \in 1..Len(m) :
              (m[j].k \in Ids(a) /\ a.drives[m[j].k].is_active /\ m[j].v # -1)
                 => /\ m[j].v \in DOMAIN a.drives[m[j].k].sectors
                    /\ a.drives[m[j].k].sectors[m[j].v].lba = lba

\* C9: when the only worker, rebuild or rebalance, finds its flag cleared
\* between LBAs and stops, the placement map reflects exactly what is on
\* the drives.
C9_CancelLeavesPlacementConsistent ==
    [][\A i \in 1..Len(threads) :
        (/\ Len(threads) = 1
         /\ threads[i].pc = "loop" /\ threads[i].lba < threads[i].total
         /\ IF threads[i].kind = "rebuild" THEN ~rebuild_active
                                            ELSE ~rebalance_active
         /\ threads' = Ended(i))
        => PlacementConsistent(SelfNext)]_vars

\* C10: on a redundant level with no worker active and at least
\* total_drives - fault_tolerance drives active, every turn of write_data's
\* loop commits its character: the LBA counter grows by one and the new
\* LBA gets a non-empty placement entry.
C10_QuorumWriteCommits ==
    [][(/\ IsWriteBlockStep
        /\ raid_level \in {1, 5, 6, 10, 50, 60}
        /\ ~WorkerActive /\ threads = <<>>
        /\ ~write_refused(Self))
        => /\ current_logical_block_index' = current_logical_block_index + 1
           /\ MapGet(logical_to_physical_map', current_logical_block_index)
                 # <<>>]_vars

\* the array is below write quorum: RAID-0 with a drive inactive, another
\* level with fewer than total_drives - fault_tolerance drives active
BelowWriteQuorum ==
    LET n == Cardinality({i \in DOMAIN drives : drives[i].is_active})
        total == Cardinality(DOMAIN drives)
    IN IF raid_level = 0 THEN n < total
       ELSE n < total - fault_tolerance(raid_level)

\* C11: write_data called on an array below write quorum returns at once
\* and commits nothing: the LBA counter, the placement map, every drive
\* (its sectors and next_physical_sector) and the catalog are unchanged, so
\* the LBAs committed before are preserved.
C11_BelowQuorumCommitsNothing ==
    [][(BelowWriteQuorum /\ IsCallOf({"write_data", "write_refused"}))
        => /\ fg'.pc = "idle"
           /\ UNCHANGED <<drives, current_logical_block_index,
                          logical_to_physical_map, config, committed>>]_vars

\* C11's case: a write was refused on an array that holds committed LBAs
C11_Witness ==
    /\ last.op = "write_refused"
    /\ BelowWriteQuorum
    /\ current_logical_block_index > 0


\* a write_sector of the running write_data raises in this step
WriteFails ==
    \/ fg.pc = "data" /\ ~drives[fg.drive].is_active /\ fg' # fg
    \/ fg.pc = "parity" /\ ~drives[fg.parity].is_active /\ fg' # fg

\* C12: when a drive write fails while LBA k is being written, the drive is
\* marked failed, the rest of the string is not written, every LBA below k
\* keeps its placement entry and stays counted, and placement[k] records -1
\* for the drive when it was the DATA destination.
C12_FailedWriteMarksLost ==
    [][WriteFails =>
        LET k == current_logical_block_index
            id == IF fg.pc = "data" THEN fg.drive ELSE fg.parity
        IN /\ drives'[id].status = "failed" /\ ~drives'[id].is_active
           /\ fg'.pc = "idle"
           /\ current_logical_block_index' = k
           /\ \A j \in 0..(k - 1) :
                 /\ j \in DOMAIN logical_to_physical_map'
                 /\ logical_to_physical_map'[j] = logical_to_physical_map[j]
           /\ (fg.pc = "data" =>
                 /\ k \in DOMAIN logical_to_physical_map'
                 /\ DHas(logical_to_physical_map'[k], id)
                 /\ DGet(logical_to_physical_map'[k], id) = -1)]_vars

\* the drive ids holding a sector tagged with LBA k that placement[k] does
\* not reference
Orphans(k) ==
    {i \in DOMAIN drives :
        \E sc \in DOMAIN drives[i].sectors :
           /\ drives[i].sectors[sc].lba = k
           /\ ~(/\ k \in DOMAIN logical_to_physical_map
                /\ DHas(logical_to_physical_map[k], i)
                /\ DGet(logical_to_physical_map[k], i) = sc)}

\* C13: once write_data has returned, an LBA that is not committed has left
\* no sector behind: no drive holds a sector tagged with it that its
\* placement entry does not reference.
C13_NoOrphanSector ==
    (fg.pc = "idle" /\ last.op = "write_data")
        => Orphans(current_logical_block_index) = {}

\* a restart step
IsRestart == IsCallOf({"restart", "restart_stale"})

\* C14: a restart after cleanup(), the workers having ended, recovers the
\* array as it was: the drives with their sectors, the counter (so that the
\* next write gets the LBA the counter held), the placement map, and the
\* result of health_check.
C14_RestartPreservesArray ==
    [][(IsRestart /\ last.op = "cleanup" /\ threads = <<>>)
        => /\ drives' = drives
           /\ current_logical_block_index' = current_logical_block_index
           /\ logical_to_physical_map' = logical_to_physical_map
           /\ raid_signature' = raid_signature
           /\ health_check(SelfNext) = health_check(Self)]_vars

\* the drives of placement[lba] other than i that are inactive or marked lost
Unavailable(lba, i) ==
    {j \in DKeys(logical_to_physical_map[lba]) \ {i} :
        ~drives[j].is_active \/ DGet(logical_to_physical_map[lba], j) = -1}

\* C15: in an array loaded from its catalog that has not written since (no
\* other drive holds a sector written in this process), a sector the rebuild
\* wrote for an LBA whose other drives are active (all of them for a sector
\* rebuilt in place, all but the failed one for a sector on the new drive
\* that replaces it) holds the payload of the
\* LBA (its data or its parity), never the "???" sentinel.
C15_LoadedArrayRebuilds ==
    \A i \in DOMAIN drives : \A sc \in DOMAIN drives[i].sectors :
        LET sec == drives[i].sectors[sc]
        IN (/\ now > 0
            /\ sec.type \in {"REBUILT", "SYNCED"}
            /\ \A j \in DOMAIN drives : j # i => drives[j].sectors = EmptyFn
            /\ sec.lba \in DOMAIN logical_to_physical_map
            /\ sec.lba < Len(committed)
            /\ Cardinality(Unavailable(sec.lba, i))
                  = (IF sec.type = "SYNCED" THEN 1 ELSE 0))
           => /\ sec.data # UNKNOWN
              /\ sec.data \in {committed[sec.lba + 1].data,
                               calculate_parity(committed[sec.lba + 1].data)}

\* C16: on load, the drive whose file is missing is attached inactive with
\* status failed_file_missing, the drive whose file records another
\* signature gets failed_signature_mismatch, and otherwise the status of
\* the catalog is restored.
C16_LoadDetectsArtifacts ==
    [][\A f \in DOMAIN drives : \A found \in Artifacts :
          RestartWith(f, found)
          => LET info == CHOOSE e \in {config.drives[j] : j \in DOMAIN config.drives} :
                            e.id = f
             IN IF ~found.exists
                THEN ~drives'[f].is_active /\ drives'[f].status = "failed_file_missing"
                ELSE IF ~found.own
                THEN drives'[f].status = "failed_signature_mismatch"
                ELSE drives'[f].status = info.status]_vars

\* C17: a load of the catalog just saved yields the same raid_level,
\* raid_signature, counter and placement map (integer keys, the sectors and
\* the -1 marks), the same drive ids and signatures; the drive list of the
\* catalog is in ascending order of id.
C17_SaveLoadRoundTrip ==
    [][IsCallOf({"restart"})
        => /\ raid_level' = raid_level
           /\ raid_signature' = raid_signature
           /\ current_logical_block_index' = current_logical_block_index
           /\ logical_to_physical_map' = logical_to_physical_map
           /\ DOMAIN drives' = DOMAIN drives
           /\ \A i \in DOMAIN drives : drives'[i].signature = drives[i].signature
           /\ \A j \in 1..(Len(config.drives) - 1) :
                 config.drives[j].id < config.drives[j + 1].id]_vars

\* a loaded array with a block marked lost and a drive added since the start
C17_Witness ==
    /\ last.op = "restart"
    /\ current_logical_block_index > 0
    /\ NumDrives(Self) > min_drives(raid_level)
    /\ \E l \in DOMAIN logical_to_physical_map :
          \E e \in 1..Len(logical_to_physical_map[l]) :
             logical_to_physical_map[l][e].v = -1

\* the sync of the drive added by the last call, add_drive, is the only
\* worker and leaves its loop at the end of the array in this step
SyncCompletes ==
    /\ raid_level = 1
    /\ last.op = "add_drive"
    /\ Len(threads) = 1
    /\ threads[1].kind = "rebuild" /\ threads[1].isnew
    /\ threads[1].repl = last.id
    /\ threads[1].pc = "loop"
    /\ threads[1].lba >= threads[1].total
    /\ threads[1].total = current_logical_block_index
    /\ threads' = <<>>

\* C18: on RAID-1, when the sync started by add_drive on an array with all
\* drives active and every LBA readable on every existing mirror completes, the
\* new drive holds for every LBA below the
\* counter, at the physical sector of that number, the payload written, with
\* role SYNCED; placement[lba][new_id] is that sector; health_check returns OK.
C18_AddDriveSyncsMirror ==
    [][(/\ SyncCompletes
        /\ \A i \in DOMAIN drives : drives[i].is_active
        /\ \A lba \in 0..(current_logical_block_index - 1) :
              \A j \in DOMAIN drives \ {last.id} :
                 LET pmap == MapGet(logical_to_physical_map, lba)
                 IN /\ Readable(Self, j, pmap)
                    /\ drives[j].sectors[DGet(pmap, j)].data = committed[lba + 1].data)
        => /\ \A lba \in 0..(current_logical_block_index - 1) :
                 /\ lba \in DOMAIN drives'[last.id].sectors
                 /\ drives'[last.id].sectors[lba].type = "SYNCED"
                 /\ drives'[last.id].sectors[lba].lba = lba
                 /\ drives'[last.id].sectors[lba].data = committed[lba + 1].data
                 /\ DGet(logical_to_physical_map'[lba], last.id) = lba
           /\ health_check(SelfNext) = "OK"]_vars

\* a quiescent mirror of three drives whose added drive holds two synced
\* blocks
C18_Witness ==
    /\ raid_level = 1 /\ last.op = "add_drive" /\ Quiescent
    /\ current_logical_block_index = 2
    /\ \A lba \in {0, 1} :
          /\ lba \in DOMAIN drives[last.id].sectors
          /\ drives[last.id].sectors[lba].type = "SYNCED"
    /\ health_check(Self) = "OK"

\* C18 without its conditions on the array: whatever the state of the
\* mirrors when the sync of an added drive completes
C18_SyncOnAnyArray ==
    [][SyncCompletes
        => /\ \A lba \in 0..(current_logical_block_index - 1) :
                 /\ lba \in DOMAIN drives'[last.id].sectors
                 /\ drives'[last.id].sectors[lba].type = "SYNCED"
                 /\ drives'[last.id].sectors[lba].data = committed[lba + 1].data
           /\ health_check(SelfNext) = "OK"]_vars

\* the rebuild started by the last call, start_rebuild of a failed drive
\* onto a replacement, is the only worker and leaves its loop at the end of
\* the array
RebuildCompletes ==
    /\ last.op = "start_rebuild"
    /\ Len(threads) = 1
    /\ threads[1].kind = "rebuild" /\ ~threads[1].isnew
    /\ threads[1].repl = last.id /\ threads[1].failed = last.choice
    /\ threads[1].pc = "loop"
    /\ threads[1].lba >= threads[1].total
    /\ threads' = <<>>

\* C19: on RAID-0, when the rebuild of a failed drive onto its replacement
\* completes, for every LBA that lived on the failed drive the replacement
\* holds a sector with payload "LOST" and role PERM_LOST,
\* placement[lba][replacement] is -1, and health_check returns CRITICAL.
C19_Raid0RebuildMarksLost ==
    [][(raid_level = 0 /\ RebuildCompletes)
        => LET w == threads[1]
           IN /\ \A lba \in DOMAIN logical_to_physical_map :
                    DHas(logical_to_physical_map[lba], w.failed)
                    => /\ \E sc \in DOMAIN drives'[w.repl].sectors :
                             /\ drives'[w.repl].sectors[sc].lba = lba
                             /\ drives'[w.repl].sectors[sc].data = LOST
                             /\ drives'[w.repl].sectors[sc].type = "PERM_LOST"
                       /\ DGet(logical_to_physical_map'[lba], w.repl) = -1
              /\ health_check(SelfNext) = "CRITICAL"]_vars

\* the rebalance started by the last call, add_drive, is the only worker and
\* leaves its loop at the end of the array in this step
RebalanceCompletes ==
    /\ last.op = "add_drive"
    /\ Len(threads) = 1
    /\ threads[1].kind = "rebalance"
    /\ threads[1].new_drive_id = last.id
    /\ threads[1].pc = "loop"
    /\ threads[1].lba >= threads[1].total
    /\ threads[1].total = current_logical_block_index
    /\ threads' = <<>>

\* the drives the writers stripe the block lba over when the active drives
\* are act (_write_raid0 725-728, _write_raid5 780-797), their tests of the
\* number of drives left aside
Geometry(a, act, lba) ==
    IF a.raid_level = 0 THEN {act[(lba % Len(act)) + 1]}
    ELSE DKeys(StripeP([a EXCEPT !.logical_to_physical_map =
                           Put(a.logical_to_physical_map, lba, <<>>)],
                       act, <<65>>, lba).logical_to_physical_map[lba])

RebalanceWorkerStep ==
    \E i \in 1..Len(threads) :
        /\ threads[i].kind = "rebalance"
        /\ \/ threads' = Ended(i)
           \/ Len(threads') = Len(threads) /\ threads'[i] # threads[i]

\* C21: a rebalance never runs on a RAID-1, RAID-10, RAID-50 or RAID-60
\* array: no step of a rebalance worker clears or rewrites a drive's sectors
\* there, and an add_drive call there starts no rebalance worker (on RAID-1,
\* with no worker active, it starts a rebuild in new-drive-add mode).
C21_NoRebalanceOnMirrorOrNested ==
    [][(raid_level \in {1, 10, 50, 60})
        => /\ (RebalanceWorkerStep
                  => \A d \in DOMAIN drives : drives'[d].sectors = drives[d].sectors)
           /\ (IsCallOf({"add_drive"})
                  => (/\ \A i \in 1..Len(threads') :
                            threads'[i].kind = "rebalance" => i <= Len(threads)
                      /\ ~WorkerActive
                            => (/\ Len(threads') = Len(threads) + 1
                                /\ threads'[Len(threads')].kind = "rebuild"
                                /\ threads'[Len(threads')].isnew)))]_vars

\* the only worker, a rebuild on a redundant level, takes a turn of its loop
\* for an LBA it does not skip and for which neither sufficient data nor
\* parity is readable: the reconstruction yields "???"
ReconstructionUnavailable ==
    /\ raid_level # 0
    /\ Len(threads) = 1
    /\ threads[1].kind = "rebuild" /\ threads[1].pc = "loop"
    /\ threads[1].lba < threads[1].total /\ rebuild_active
    /\ Len(threads') = 1 /\ threads'[1].lba = threads[1].lba + 1
    /\ LET w == threads[1]
           pmap == MapGet(logical_to_physical_map, w.lba)
       IN /\ w.isnew \/ DGet(pmap, w.failed) \notin {None, -1}
          /\ rebuilt_data(Self, w, w.lba, pmap) = UNKNOWN

\* C22: in a rebuild, when for some LBA neither sufficient data nor parity
\* is readable, the worker writes the payload "???" with role REBUILD-FAIL
\* on the replacement, sets placement[lba][replacement] to -1, and goes on
\* to the next LBA.
C22_UnavailableWritesRebuildFail ==
    [][ReconstructionUnavailable
        => LET w == threads[1]
           IN /\ \E sc \in DOMAIN drives'[w.repl].sectors :
                    /\ drives'[w.repl].sectors[sc].lba = w.lba
                    /\ drives'[w.repl].sectors[sc].data = UNKNOWN
                    /\ drives'[w.repl].sectors[sc].type = "REBUILD-FAIL"
              /\ DGet(logical_to_physical_map'[w.lba], w.repl) = -1]_vars

\* C23: once remove_drive has dropped the array below survivability (fewer
\* than total_drives - fault_tolerance drives active), every later recovery
\* action on it is refused: while the array is below survivability no call
\* of start_rebuild (a same-id re-add included), add_drive or write_data
\* changes the array, starts a worker or enters the write loop.
C23_BeyondToleranceRefusesRecovery ==
    [][beyond_tolerance(Self)
        => ~IsCallOf({"start_rebuild", "add_drive", "write_data"})]_vars

\* the array with both flags down: what a start would find were no worker
\* running
FlagsDown(a) == [a EXCEPT !.rebuild_active = FALSE, !.rebalance_active = FALSE]

TurnAfterFlagCleared(i) ==
    /\ threads[i].pc = "loop" /\ threads[i].lba >= 1
    /\ \E j \in (i + 1)..Len(threads) : threads[j].kind = threads[i].kind
    /\ Len(threads') = Len(threads)
    /\ threads'[i].lba = threads[i].lba + 1

\* C25: if rebuild_active (rebalance_active) is set to false from outside
\* while the worker is between LBAs, the worker reconstructs no further
\* LBA: from then on no turn of its loop writes a sector on any drive or
\* changes the placement map.
C25_ClearedFlagStopsWorker ==
    [][\A i \in 1..Len(threads) :
          TurnAfterFlagCleared(i)
             => /\ \A d \in DOMAIN drives : drives'[d].sectors = drives[d].sectors
                /\ logical_to_physical_map' = logical_to_physical_map]_vars

\* _rebuild_worker run from the top of its loop to its end with no other
\* thread running: the turns for w.lba .. w.total - 1, then what follows
\* the loop and the finally clause
RECURSIVE rebuild_worker(_, _)
rebuild_worker(a, w) ==
    IF w.lba >= w.total \/ ~a.rebuild_active
    THEN rebuild_finally(rebuild_complete(a, w))
    ELSE LET r == rebuild_lba(a, w)
         IN IF r.ok THEN rebuild_worker(r.a, [w EXCEPT !.lba = w.lba + 1])
            ELSE rebuild_finally(r.a)

\* start_rebuild(failed, repl) on the array a and the worker it starts, if
\* it starts one, run to its end: the array after
rebuild_done(a, failed, repl, isnew) ==
    LET b == start_rebuild(a, failed, repl, isnew)
    IN IF Len(b.threads) = Len(a.threads) THEN b
       ELSE [rebuild_worker(b, [b.threads[Len(b.threads)] EXCEPT
                                   !.total = b.current_logical_block_index])
                EXCEPT !.threads = a.threads]

\* no call is running, no worker is alive and every drive is active with
\* status "active"
AllHealthy ==
    /\ Quiescent
    /\ \A i \in Ids(Self) : drives[i].is_active /\ drives[i].status = "active"

\* C26: rebuild idempotence: on an array with no failed drive, a rebuild
\* started on an already-healthy active drive, in replacement mode or in
\* new-drive-add mode, and run to its end leaves the placement of every LBA
\* unchanged.
C26_RebuildIdempotent ==
    AllHealthy
        => \A repl \in Ids(Self), failed \in Ids(Self) \cup {-1} :
              rebuild_done(Self, failed, repl, failed = -1).logical_to_physical_map
                 = logical_to_physical_map

\* the drives a writer puts the block lba on when the active drives are
\* act: every one of them on RAID-1 (_write_raid1), the DATA, P and Q drives
\* on RAID-6 (_write_raid6), else as Geometry
WriterIds(a, act, lba) ==
    CASE a.raid_level = 1 -> {act[j] : j \in 1..Len(act)}
      [] a.raid_level = 6 ->
            DKeys(StripePQ([a EXCEPT !.logical_to_physical_map =
                               Put(a.logical_to_physical_map, lba, <<>>)],
                           act, <<65>>, lba).logical_to_physical_map[lba])
      [] OTHER -> Geometry(a, act, lba)

\* the sets of drives that can have been the active ones at a write: the
\* stripe needs one drive, two on RAID-5, three on RAID-6
ActiveSets(a) ==
    {S \in SUBSET Ids(a) :
        Cardinality(S) >= (CASE a.raid_level = 5 -> 2
                             [] a.raid_level = 6 -> 3
                             [] OTHER -> 1)}

\* C27: in every reachable state, for every LBA in the placement map the
\* drive ids present (marked -1 or not) are exactly those the geometry
\* chooses for that LBA under a set of drives that was active when it was
\* written: rebuild, sync and rebalance leave no LBA with other drive ids.
C27_PlacementMatchesGeometry ==
    (raid_level \in {0, 1, 5, 6} /\ fg.pc = "idle")
        => \A k \in DOMAIN logical_to_physical_map :
              \E S \in ActiveSets(Self) :
                  DKeys(logical_to_physical_map[k]) = WriterIds(Self, SortedSeq(S), k)

\* C28: after every operation (initialize, add_drive, remove_drive, load,
\* rebuild, rebalance) drives[i].drive_id = i for every position i: the
\* drive ids are 0 .. n - 1 with no gap, and the drive list as the catalog
\* records it is sorted by id, the id i at position i.
C28_DriveIdsContiguous ==
    /\ Ids(Self) = 0..(NumDrives(Self) - 1)
    /\ Len(config.drives) <= NumDrives(Self)
    /\ \A j \in 1..Len(config.drives) : config.drives[j].id = j - 1

\* C28's case: an array that was grown by add_drive, had a drive failed by
\* remove_drive and was loaded from its catalog by a later process
C28_Witness ==
    /\ now >= 1
    /\ NumDrives(Self) = min_drives(raid_level) + 1
    /\ \E i \in Ids(Self) : ~drives[i].is_active /\ drives[i].status = "failed"
    /\ Len(config.drives) = NumDrives(Self)

\* C29: for every drive in every reachable state, next_physical_sector is
\* at least 0 and greater than every key of its sector map, so that an
\* append write never overwrites a sector; across append writes, targeted
\* writes, the resets of rebuild and rebalance, and a foreground write that
\* interleaves with a worker's reset of the drive.
C29_NextSectorAboveKeys ==
    \A i \in DOMAIN drives :
        /\ drives[i].next_physical_sector >= 0
        /\ \A k \in DOMAIN drives[i].sectors : drives[i].next_physical_sector > k

\* the statuses an active drive may carry
LiveStatuses == {"active", "rebuilding", "syncing", "re_adding", "rebalancing"}

\* C30: in every reachable state an active drive carries one of the
\* statuses active, rebuilding, syncing, re_adding, rebalancing, never a
\* failed one, under any interleaving of remove_drive's mark_failed with a
\* worker's status updates.
C30_ActiveDriveHasLiveStatus ==
    \A i \in DOMAIN drives :
        drives[i].is_active => drives[i].status \in LiveStatuses

\* the four results of a health check
HealthValues == {"OK", "INCONSISTENT", "DEGRADED", "CRITICAL"}

\* C31: in every reachable state of the array, health_check returns one of
\* the four values OK, INCONSISTENT, DEGRADED, CRITICAL.
C31_HealthIsOneOfFour == health_check(Self) \in HealthValues

\* the catalog file records the LBA k: the counter is past it and the
\* placement has its entry
CatalogRecords(k) ==
    /\ config.current_logical_block_index >= k + 1
    /\ Str(k) \in DOMAIN config.logical_to_physical_map

C33_CodecRoundTrip ==
    \A l \in 1..Len(committed) :
        LET c == committed[l].data
            lba == l - 1
        IN /\ (raid_level \in {5, 6} => data_from_p(calculate_parity(c)) = c)
           /\ (raid_level = 6 => data_from_q(q_parity(c, lba), lba) = c)

\* the type and LBA of the sector the placement entry m records for drive id
PlacedAs(id, m, type, lba) ==
    LET sec == DGet(m, id)
    IN /\ sec \in DOMAIN drives'[id].sectors
       /\ drives'[id].sectors[sec].type = type
       /\ drives'[id].sectors[sec].lba = lba

\* C34: on RAID-6 with N >= 4 active drives, the LBA a turn of write_data
\* commits has exactly three placement entries on three distinct drives:
\* PARITY-P on active[lba mod N], PARITY-Q on active[(lba+1) mod N], and DATA
\* on the (lba mod (N-2))-th of the remaining drives in their order.
C34_Raid6Placement ==
    [][(IsWriteBlockStep /\ raid_level = 6
        /\ current_logical_block_index' = current_logical_block_index + 1) =>
        LET lba == current_logical_block_index
            act == active_drives(Self)
            N == Len(act)
            p == act[(lba % N) + 1]
            q == act[((lba + 1) % N) + 1]
            others == Without(act, {(lba % N) + 1, ((lba + 1) % N) + 1})
            d == others[(lba % (N - 2)) + 1]
            m == logical_to_physical_map'[lba]
        IN /\ N >= 4
           /\ Len(m) = 3
           /\ DKeys(m) = {p, q, d}
           /\ Cardinality({p, q, d}) = 3
           /\ PlacedAs(p, m, "PARITY-P", lba)
           /\ PlacedAs(q, m, "PARITY-Q", lba)
           /\ PlacedAs(d, m, "DATA", lba)]_vars

\* C34's case: LBA 0 was committed on a RAID-6 array of four active drives,
\* P on drive 0, Q on drive 1 and DATA on drive 2; LBA 1 followed on
\* drives 1, 2 and 3
C34_Witness ==
    /\ raid_level = 6
    /\ current_logical_block_index = 2
    /\ Len(committed) = 2
    /\ threads = <<>>
    /\ DKeys(logical_to_physical_map[0]) = {0, 1, 2}
    /\ drives[0].sectors[DGet(logical_to_physical_map[0], 0)].type = "PARITY-P"
    /\ drives[1].sectors[DGet(logical_to_physical_map[0], 1)].type = "PARITY-Q"
    /\ drives[2].sectors[DGet(logical_to_physical_map[0], 2)].type = "DATA"
    /\ DKeys(logical_to_physical_map[1]) = {1, 2, 3}

\* the rebuild thread i is about to rebuild, for its LBA, the block its
\* failed drive (re-added, or inactive) still holds under the role it was
\* written with
RebuildsRecorded(i) ==
    LET w == threads[i]
        pmap == MapGet(logical_to_physical_map, w.lba)
        s == DGet(pmap, w.failed)
    IN /\ w.kind = "rebuild" /\ w.pc = "loop" /\ ~w.isnew
       /\ rebuild_active
       /\ w.lba < w.total
       /\ w.failed \in Ids(Self)
       /\ (w.failed = w.repl \/ ~drives[w.failed].is_active)
       /\ s # None /\ s # -1
       /\ s \in DOMAIN drives[w.failed].sectors
       /\ drives[w.failed].sectors[s].lba = w.lba
       /\ drives[w.failed].sectors[s].type \in {"DATA", "PARITY", "PARITY-P", "PARITY-Q"}

\* C35: for every LBA and target drive of a RAID-5/6 rebuild, the role
\* under which the worker reconstructs the target's block (DATA, PARITY,
\* PARITY-P or PARITY-Q) is the role recorded when the LBA was written, also
\* for LBAs written while a drive was inactive or before the drive count
\* changed.
C35_RebuildRoleIsRecordedRole ==
    raid_level \in {5, 6} =>
        \A i \in 1..Len(threads) :
            RebuildsRecorded(i) =>
                LET w == threads[i]
                    s == DGet(logical_to_physical_map[w.lba], w.failed)
                IN target_role(Self, w, w.lba) = drives[w.failed].sectors[s].type

\* drive A has been rebuilt in place to completion by the last call, and
\* the array is healthy again
RebuiltInPlace(A) ==
    /\ AllHealthy
    /\ last = Called("start_rebuild", A, A)
    /\ \E s \in DOMAIN drives[A].sectors : drives[A].sectors[s].type = "REBUILT"

\* the blocks drive B holds for the LBAs of the map
HeldBy(B) ==
    {lba \in DOMAIN logical_to_physical_map :
        Readable(Self, B, logical_to_physical_map[lba])}

\* C36: redundancy is restored by a rebuild: on RAID-5/6, after drive A has
\* been rebuilt to completion, when a different drive B fails and is
\* rebuilt, every sector rebuilt on B holds the payload B held before it
\* failed, never '???'.
C36_RebuiltSectorsAreSources ==
    raid_level \in {5, 6} =>
        \A A \in Ids(Self), B \in Ids(Self) :
            (A # B /\ RebuiltInPlace(A)) =>
                LET after == rebuild_done(remove_drive(Self, B, 3), B, B, FALSE)
                IN \A lba \in HeldBy(B) :
                      LET s == DGet(logical_to_physical_map[lba], B)
                      IN /\ s \in DOMAIN after.drives[B].sectors
                         /\ after.drives[B].sectors[s].data = drives[B].sectors[s].data

\* C37: health_check returns CRITICAL whenever fewer drives are active than
\* the drive count less the fault tolerance, also while a rebuild or a
\* rebalance is active or a drive has status failed_signature_mismatch: no
\* later test of the same call lowers CRITICAL to a DEGRADED value.
C37_CriticalIsNotDowngraded ==
    beyond_tolerance(Self) => health_check(Self) = "CRITICAL"

\* the drive a worker thread works for
TargetOf(w) == IF w.kind = "rebuild" THEN w.repl ELSE w.new_drive_id

\* the step ends the worker thread i
EndsThread(i) == Len(threads') = Len(threads) - 1 /\ threads' = Ended(i)

\* the worker's flag is down after the step
FlagDownAfter(w) ==
    IF w.kind = "rebuild" THEN ~rebuild_active' ELSE ~rebalance_active'

\* a started worker's flag eventually becomes false
FlagsReleased ==
    /\ rebuild_active ~> ~rebuild_active
    /\ rebalance_active ~> ~rebalance_active

CatalogMatches ==
    LET saved == save_config(Self).config
    IN /\ config.current_logical_block_index = current_logical_block_index
       /\ config.logical_to_physical_map = saved.logical_to_physical_map
       /\ Len(config.drives) = Len(saved.drives)
       /\ \A j \in 1..Len(saved.drives) :
             /\ config.drives[j].id = saved.drives[j].id
             /\ config.drives[j].is_active = saved.drives[j].is_active
             /\ config.drives[j].status = saved.drives[j].status

\* C39: whenever a public operation has returned and no worker is running,
\* the catalog on disk equals the array in memory: the same LBA counter,
\* the same placement (the -1 marks included) and the same active flag and
\* status for every drive; also after an aborted write, after a
\* remove_drive beyond fault tolerance on RAID-0, after a RAID-0 re-add
\* refusal and after health_check has marked a drive failed.
C39_CatalogMatchesWhenQuiet ==
    (fg.pc = "idle" /\ threads = <<>>) => CatalogMatches

====
